---- MODULE Spec2Model ----
(***************************************************************************)
(* Attendance Session & Auto-Logout Engine of the attendance tracker:      *)
(* the schedule evaluator (database.js), the scan classifier               *)
(* (POST /api/attendance/scan, server.js) and the meeting-end auto-logout  *)
(* pass (performMeetingEndLogout, server.js).                              *)
(*                                                                         *)
(* Every sqlite3 call of the source is asynchronous: the statement runs    *)
(* and its callback is called in a later turn of the event loop.  Each     *)
(* action below is one such turn: the statement's evaluation against the   *)
(* tables as they are then, followed by the whole callback.                *)
(***************************************************************************)
EXTENDS Integers, Sequences, FiniteSets, TLC

VARIABLES
    meeting_schedules,  \* table meeting_schedules: a set of rows
    meetingSchedulers,  \* server.js:17, the cron tasks registered by schedulerId
    cronTasks,          \* the cron tasks started (cron.schedule) and not stopped
    rearm,              \* the calls of initializeMeetingScheduler and those in flight
    admin,              \* the in-flight requests of the management API
    clk,                \* the wall clock: an index into Timeline (one instant = one second)
    attendance_records, \* table attendance_records: a sequence, the row id is the index
    scan,               \* the in-flight POST /api/attendance/scan requests
    pass,               \* the in-flight performMeetingEndLogout passes
    faulty,             \* the handlers whose sqlite3 statements may fail in this behaviour
    hist,               \* history: which passes have run undisturbed (see CleanHist)
    ev                  \* SpecEval only: the last evaluator call and its result

vars ==
    <<meeting_schedules, meetingSchedulers, cronTasks, rearm, admin, clk,
      attendance_records, scan, pass, faulty, hist, ev>>

----------------------------------------------------------------------------
(* Program constants *)

LogoutDelay == 15
ReviewWindow == 5
MinutesPerHour == 60
HoursPerDay == 24
DaysPerWeek == 7

(* Bounds of the model *)

\* how many instants of Timeline the clock of Spec walks through
MaxClock == 6
\* how many rows may be inserted into attendance_records
MaxRecords == 2
\* how many requests of the management API may change the schedule or the tasks
MaxRequests == 2

----------------------------------------------------------------------------
(* Times of day.  The source keeps a time of day as the text "HH:MM"       *)
(* (TEXT columns start_time, end_time; toTimeString().substring(0, 5)) and *)
(* SQLite compares TEXT byte by byte.  A text is modelled as its digits,   *)
(* <<H, H, M, M>>, the colon being the same byte in every text.            *)

\* String(n).padStart(2, '0') twice, as toTimeString() prints HH:MM
TimeText(hour, minute) ==
    << hour \div 10, hour % 10, minute \div 10, minute % 10 >>

\* SQLite's comparison of two TEXT values: a < b
TextLt(a, b) ==
    \/ \E i \in 1..Len(a) :
          /\ i <= Len(b)
          /\ a[i] < b[i]
          /\ \A j \in 1..(i - 1) : a[j] = b[j]
    \/ /\ Len(a) < Len(b)
       /\ \A j \in 1..Len(a) : a[j] = b[j]

\* SQLite's comparison of two TEXT values: a <= b
TextLeq(a, b) == a = b \/ TextLt(a, b)

\* end_time.split(':').map(Number): the hour
ParseHour(t) == t[1] * 10 + t[2]

\* end_time.split(':').map(Number): the minute
ParseMinute(t) == t[3] * 10 + t[4]

----------------------------------------------------------------------------
(* The wall clock.  An instant is what new Date() gives: getDay(),         *)
(* getHours(), getMinutes().  Timeline lists, in order, the instants the   *)
(* clock takes; consecutive instants are at least one second apart, so     *)
(* CURRENT_TIMESTAMP (one-second resolution) at instant i is modelled as i.*)

At(d, h, m) == [day |-> d, hour |-> h, minute |-> m]

Timeline ==
    << At(1, 11, 57), At(1, 12, 0),  At(1, 12, 1),  At(1, 12, 15),
       At(1, 13, 0),  At(1, 17, 15), At(2, 8, 0),   At(2, 12, 15),
       At(1, 7, 59),  At(1, 8, 0),   At(1, 11, 50), At(1, 11, 54),
       At(1, 11, 55), At(1, 12, 5),  At(1, 23, 59), At(0, 9, 0),
       At(2, 7, 0),   At(2, 14, 0),  At(3, 23, 50), At(3, 23, 51),
       At(6, 10, 0),  At(6, 23, 59), At(4, 0, 0),   At(5, 12, 0) >>

Now == Timeline[clk]

\* now.getDay()
DayOfWeek(now) == now.day

\* now.toTimeString().substring(0, 5)
CurrentTime(now) == TimeText(now.hour, now.minute)

----------------------------------------------------------------------------
(* Table meeting_schedules and the schedule evaluator (database.js)        *)

Row(d, n, s, e, a) ==
    [day_of_week |-> d, session_number |-> n, start_time |-> s, end_time |-> e,
     is_active |-> a]

\* what db.get hands to its callback when no row matches (undefined)
NoRow == Row(-1, 0, << >>, << >>, FALSE)

\* UNIQUE(day_of_week, session_number)
UniqueKeys(table) ==
    \A r, s \in table :
        (r.day_of_week = s.day_of_week /\ r.session_number = s.session_number) => r = s

\* WithinRows with end_time > ? in place of end_time >= ?
WithinRowsEndExclusive(table, dayOfWeek, currentTime) ==
    { s \in table :
        /\ s.day_of_week = dayOfWeek
        /\ s.is_active
        /\ TextLeq(s.start_time, currentTime)
        /\ TextLt(currentTime, s.end_time) }

\* WithinRows without the condition is_active = 1
WithinRowsAnyActive(table, dayOfWeek, currentTime) ==
    { s \in table :
        /\ s.day_of_week = dayOfWeek
        /\ TextLeq(s.start_time, currentTime)
        /\ TextLeq(currentTime, s.end_time) }

\* the rows isWithinMeetingSchedule's SELECT matches
WithinRows(table, dayOfWeek, currentTime) ==
    { s \in table :
        /\ s.day_of_week = dayOfWeek
        /\ s.is_active
        /\ TextLeq(s.start_time, currentTime)
        /\ TextLeq(currentTime, s.end_time) }

\* isWithinMeetingSchedule: db.get gives the first matching row, in an order the
\* statement does not fix, or undefined; the set of rows it may give
isWithinMeetingSchedule(table, dayOfWeek, currentTime) ==
    IF WithinRows(table, dayOfWeek, currentTime) = {}
    THEN {NoRow}
    ELSE WithinRows(table, dayOfWeek, currentTime)

\* getNextMeetingSession, first statement: today's active sessions that have not
\* started, ORDER BY start_time LIMIT 1 (ties in an order the statement does not fix)
NextTodayRows(table, dayOfWeek, currentTime) ==
    LET cand == { s \in table :
                    /\ s.day_of_week = dayOfWeek
                    /\ s.is_active
                    /\ TextLt(currentTime, s.start_time) }
    IN  { s \in cand : \A o \in cand : TextLeq(s.start_time, o.start_time) }

\* WeekOrder without the wrap to next week: ORDER BY day_of_week
WeekOrderNoWrap(s, dayOfWeek) == s.day_of_week

\* CASE WHEN day_of_week > ? THEN day_of_week ELSE day_of_week + 7 END
WeekOrder(s, dayOfWeek) ==
    IF s.day_of_week > dayOfWeek THEN s.day_of_week ELSE s.day_of_week + DaysPerWeek

\* getNextMeetingSession, second statement: the active sessions of the other days,
\* ORDER BY the CASE expression, session_number LIMIT 1
NextWeekRows(table, dayOfWeek) ==
    LET cand == { s \in table :
                    /\ \/ (s.day_of_week > dayOfWeek /\ s.day_of_week <= 6)
                       \/ (s.day_of_week >= 0 /\ s.day_of_week < dayOfWeek)
                    /\ s.is_active }
    IN  { s \in cand :
            \A o \in cand :
                \/ WeekOrder(s, dayOfWeek) < WeekOrder(o, dayOfWeek)
                \/ /\ WeekOrder(s, dayOfWeek) = WeekOrder(o, dayOfWeek)
                   /\ s.session_number <= o.session_number }

\* getNextMeetingSession with both statements succeeding: the rows it may give
getNextMeetingSession(table, dayOfWeek, currentTime) ==
    IF NextTodayRows(table, dayOfWeek, currentTime) # {}
    THEN NextTodayRows(table, dayOfWeek, currentTime)
    ELSE IF NextWeekRows(table, dayOfWeek) = {}
         THEN {NoRow}
         ELSE NextWeekRows(table, dayOfWeek)

----------------------------------------------------------------------------
(* The cron jobs of initializeMeetingScheduler (server.js:32-59)           *)

\* LogoutTime without the wrap of the hour past midnight
LogoutTimeNoWrap(end_time) ==
    LET hour == ParseHour(end_time)
        minute == ParseMinute(end_time)
        overflow == minute + LogoutDelay >= MinutesPerHour
    IN  [hour |-> IF overflow THEN hour + 1 ELSE hour,
         minute |-> IF overflow THEN minute + LogoutDelay - MinutesPerHour
                    ELSE minute + LogoutDelay]

\* server.js:34-49: the hour and minute of end_time plus 15 minutes
LogoutTime(end_time) ==
    LET hour == ParseHour(end_time)
        minute == ParseMinute(end_time)
        overflow == minute + LogoutDelay >= MinutesPerHour
        logoutMinute == IF overflow THEN minute + LogoutDelay - MinutesPerHour
                        ELSE minute + LogoutDelay
        hour1 == IF overflow THEN hour + 1 ELSE hour
        logoutHour == IF hour1 >= HoursPerDay THEN hour1 - HoursPerDay ELSE hour1
    IN  [hour |-> logoutHour, minute |-> logoutMinute]

\* server.js:51-59: cron.schedule(`${logoutMinute} ${logoutHour} * * ${day_of_week}`)
\* stored under schedulerId `${day_of_week}-${session_number}`
CronJob(schedule) ==
    [schedulerId |-> <<schedule.day_of_week, schedule.session_number>>,
     minute |-> LogoutTime(schedule.end_time).minute,
     hour |-> LogoutTime(schedule.end_time).hour,
     day_of_week |-> schedule.day_of_week]

\* getMeetingSchedules without the condition is_active = true
getMeetingSchedulesAll(table) == table

\* getMeetingSchedules: the active rows
getMeetingSchedules(table) == { s \in table : s.is_active }

\* the jobs initializeMeetingScheduler arms for a table it has read
ArmedJobs(table) == { CronJob(s) : s \in getMeetingSchedules(table) }

\* the tasks that call n of initializeMeetingScheduler starts for a table it has
\* read: cron.schedule gives a new task for every row
Tasks(n, table) == { [task |-> n, job |-> j] : j \in ArmedJobs(table) }

\* no call of initializeMeetingScheduler since the one at startup (server.js:102-104);
\* of a call in flight, previous keeps the tasks that ran when it was made, and of
\* a call whose getMeetingSchedules gave an error, failed keeps the number
NoRearm == [calls |-> 0, pending |-> {}, failed |-> {}, previous |-> << >>]

\* node-cron: the job's expression matches the instant
CronMatches(job, now) ==
    /\ job.minute = now.minute
    /\ job.hour = now.hour
    /\ job.day_of_week = now.day

----------------------------------------------------------------------------
(* Tables members and attendance_records (database.js)                     *)

\* table members; member CRUD is outside the engine, the table is fixed
members == { [id |-> 1, barcode |-> "A"], [id |-> 2, barcode |-> "B"] }

MemberIds == { m.id : m \in members }

\* the barcodes the kiosk may send: a member's, an unknown one, a missing one;
\* member 2 is at no kiosk and is seen only by the auto-logout pass
Barcodes == { "A", "X", "" }

\* getMemberByBarcode: the member's id, or 0 for undefined
getMemberByBarcode(barcode) ==
    IF \E m \in members : m.barcode = barcode
    THEN (CHOOSE m \in members : m.barcode = barcode).id
    ELSE 0

Record(m, t, in, auto, review) ==
    [member_id |-> m, scan_time |-> t, is_checkin |-> in, is_auto_logout |-> auto,
     needs_review |-> review]

\* the ids of the rows of one member
RecordsOf(recs, memberId) == { i \in DOMAIN recs : recs[i].member_id = memberId }

\* getLastScanForMember: ORDER BY scan_time DESC LIMIT 1; among rows of the same
\* scan_time the statement fixes no order.  The ids it may give, 0 for undefined
getLastScanForMember(recs, memberId) ==
    IF RecordsOf(recs, memberId) = {}
    THEN {0}
    ELSE { i \in RecordsOf(recs, memberId) :
             \A j \in RecordsOf(recs, memberId) : recs[j].scan_time <= recs[i].scan_time }

\* IsCheckin without the negation of lastScan.is_checkin
IsCheckinSame(recs, lastScan) == lastScan = 0 \/ recs[lastScan].is_checkin

\* server.js:389: !lastScan || !lastScan.is_checkin
IsCheckin(recs, lastScan) == lastScan = 0 \/ ~recs[lastScan].is_checkin

\* MaxId with MIN(id) in place of MAX(id)
MinId(recs, memberId) ==
    CHOOSE i \in RecordsOf(recs, memberId) : \A j \in RecordsOf(recs, memberId) : i <= j

\* SELECT MAX(id) FROM attendance_records ar2 WHERE ar2.member_id = m.id
MaxId(recs, memberId) ==
    CHOOSE i \in RecordsOf(recs, memberId) : \A j \in RecordsOf(recs, memberId) : j <= i

\* getCurrentlyCheckedInMembers without the sub-select of MAX(id): every check-in
\* row of a member gives a row
getCurrentlyCheckedInMembersAnyRow(recs) ==
    IF Len(recs) = 0
    THEN {}
    ELSE { [id |-> m.id, last_checkin |-> recs[i].scan_time] :
             <<m, i>> \in { x \in members \X DOMAIN recs :
                              /\ recs[x[2]].member_id = x[1].id
                              /\ recs[x[2]].is_checkin } }

\* getCurrentlyCheckedInMembers: [] when the table is empty, else the rows
\* SELECT DISTINCT m.id, ar.scan_time of the member's row of greatest id, if a check-in
getCurrentlyCheckedInMembers(recs) ==
    IF Len(recs) = 0
    THEN {}
    ELSE { [id |-> m.id, last_checkin |-> recs[i].scan_time] :
             <<m, i>> \in { x \in members \X DOMAIN recs :
                              /\ recs[x[2]].member_id = x[1].id
                              /\ x[2] = MaxId(recs, x[1].id)
                              /\ recs[x[2]].is_checkin } }

\* the rows inserted since the server started (the rows attendance.db held then
\* carry scan_time 0)
Inserted(recs) == Cardinality({ i \in DOMAIN recs : recs[i].scan_time > 0 })

\* recordAttendance: INSERT (member_id, is_checkin, needs_review), scan_time and
\* is_auto_logout by their defaults
recordAttendance(recs, memberId, isCheckin, needsReview, now) ==
    Append(recs, Record(memberId, now, isCheckin, FALSE, needsReview))

\* recordAutoLogout that leaves needs_review to its column default, 0
recordAutoLogoutUnflagged(recs, memberId, now) ==
    Append(recs, Record(memberId, now, FALSE, TRUE, FALSE))

\* recordAutoLogout: INSERT (member_id, false, true, true)
recordAutoLogout(recs, memberId, now) ==
    Append(recs, Record(memberId, now, FALSE, TRUE, TRUE))

\* server.js:438-452: needsReview of recordAttendanceWithSession
NeedsReview(isCheckin, session, now) ==
    IF isCheckin /\ session # NoRow
    THEN LET currentTime == now.hour * MinutesPerHour + now.minute
             sessionEndTime == ParseHour(session.end_time) * MinutesPerHour
                                 + ParseMinute(session.end_time)
             minutesUntilEnd == sessionEndTime - currentTime
         IN  minutesUntilEnd <= ReviewWindow /\ minutesUntilEnd >= 0
    ELSE FALSE

----------------------------------------------------------------------------
(* POST /api/attendance/scan (server.js:365-434) and                       *)
(* recordAttendanceWithSession (server.js:437-481)                         *)

\* the slots of the scan requests that may be in flight together
ScanIds == DOMAIN scan

\* the response of a request: res.status(...).json(...)
Resp(status, action, nextSession, flagged) ==
    [status |-> status, action |-> action, nextSession |-> nextSession,
     flaggedForReview |-> flagged]

NoResp == Resp(0, "", NoRow, FALSE)

\* a request slot: pc is the callback the request waits for; checkAt, nextAt and
\* flagAt are the instants new Date() gave to isWithinMeetingSchedule,
\* getNextMeetingSession and recordAttendanceWithSession (0: not called);
\* wrote counts the rows the request has inserted
IdleScan ==
    [pc |-> "idle", barcode |-> "", member |-> 0, isCheckin |-> FALSE,
     checkAt |-> 0, nextAt |-> 0, flagAt |-> 0, session |-> NoRow,
     needsReview |-> FALSE, wrote |-> 0, resp |-> NoResp]

\* whether sqlite3 hands an error to the callback of a statement of the handler
Errs(handler) == IF handler \in faulty THEN BOOLEAN ELSE { FALSE }

ScanFrame ==
    UNCHANGED <<meeting_schedules, meetingSchedulers, cronTasks, rearm, admin, clk, pass,
                faulty, ev>>

\* hist when a scan inserts a row: no pass has run undisturbed since
ScannedHist == [clean |-> FALSE, running |-> {}]

Respond(p, resp) ==
    scan' = [scan EXCEPT ![p].pc = "done", ![p].resp = resp]

\* server.js:365-373: the request arrives
ScanRequest(p, barcode) ==
    /\ scan[p].pc \in { "idle", "done" }
    /\ IF barcode = ""
       THEN scan' = [scan EXCEPT ![p] = [IdleScan EXCEPT !.pc = "done",
                                            !.resp = Resp(400, "", NoRow, FALSE)]]
       ELSE scan' = [scan EXCEPT ![p] = [IdleScan EXCEPT !.pc = "member",
                                            !.barcode = barcode]]
    /\ UNCHANGED <<attendance_records, hist>>
    /\ ScanFrame

\* server.js:373-383: the callback of getMemberByBarcode
ScanMember(p, err) ==
    /\ scan[p].pc = "member"
    /\ IF err
       THEN Respond(p, Resp(500, "", NoRow, FALSE))
       ELSE IF getMemberByBarcode(scan[p].barcode) = 0
            THEN Respond(p, Resp(404, "", NoRow, FALSE))
            ELSE scan' = [scan EXCEPT ![p].pc = "lastscan",
                             ![p].member = getMemberByBarcode(scan[p].barcode)]
    /\ UNCHANGED <<attendance_records, hist>>
    /\ ScanFrame

\* server.js:383-432: the callback of getLastScanForMember, which classifies the scan
\* and calls isWithinMeetingSchedule (a check-in) or recordAttendanceWithSession
ScanLastScan(p, err, lastScan) ==
    /\ scan[p].pc = "lastscan"
    /\ lastScan \in getLastScanForMember(attendance_records, scan[p].member)
    /\ IF err
       THEN Respond(p, Resp(500, "", NoRow, FALSE))
       ELSE IF IsCheckin(attendance_records, lastScan)
            THEN scan' = [scan EXCEPT ![p].pc = "within", ![p].isCheckin = TRUE,
                             ![p].checkAt = clk]
            ELSE scan' = [scan EXCEPT ![p].pc = "insert", ![p].isCheckin = FALSE,
                             ![p].needsReview = NeedsReview(FALSE, NoRow, Now)]
    /\ UNCHANGED <<attendance_records, hist>>
    /\ ScanFrame

\* server.js:393-427: the callback of isWithinMeetingSchedule
ScanWithin(p, err, activeSession) ==
    /\ scan[p].pc = "within"
    /\ activeSession \in isWithinMeetingSchedule(meeting_schedules,
                            DayOfWeek(Timeline[scan[p].checkAt]),
                            CurrentTime(Timeline[scan[p].checkAt]))
    /\ IF err
       THEN Respond(p, Resp(500, "", NoRow, FALSE))
       ELSE IF activeSession = NoRow
            THEN scan' = [scan EXCEPT ![p].pc = "next1", ![p].nextAt = clk]
            ELSE scan' = [scan EXCEPT ![p].pc = "insert", ![p].session = activeSession,
                             ![p].flagAt = clk,
                             ![p].needsReview = NeedsReview(TRUE, activeSession, Now)]
    /\ UNCHANGED <<attendance_records, hist>>
    /\ ScanFrame

\* server.js:405-420: the 403 response with the next session
OutOfSchedule(nextSession) == Resp(403, "", nextSession, FALSE)

\* database.js:481-492: the callback of getNextMeetingSession's first statement
ScanNextToday(p, err, todaySession) ==
    /\ scan[p].pc = "next1"
    /\ \/ todaySession \in NextTodayRows(meeting_schedules,
                              DayOfWeek(Timeline[scan[p].nextAt]),
                              CurrentTime(Timeline[scan[p].nextAt]))
       \/ /\ todaySession = NoRow
          /\ NextTodayRows(meeting_schedules, DayOfWeek(Timeline[scan[p].nextAt]),
                           CurrentTime(Timeline[scan[p].nextAt])) = {}
    /\ IF ~err /\ todaySession # NoRow
       THEN Respond(p, OutOfSchedule(todaySession))
       ELSE scan' = [scan EXCEPT ![p].pc = "next2"]
    /\ UNCHANGED <<attendance_records, hist>>
    /\ ScanFrame

\* database.js:495-504 and server.js:400-421: the callback of the second statement
ScanNextWeek(p, err, nextSession) ==
    /\ scan[p].pc = "next2"
    /\ \/ nextSession \in NextWeekRows(meeting_schedules,
                             DayOfWeek(Timeline[scan[p].nextAt]))
       \/ /\ nextSession = NoRow
          /\ NextWeekRows(meeting_schedules, DayOfWeek(Timeline[scan[p].nextAt])) = {}
    /\ IF err
       THEN Respond(p, Resp(500, "", NoRow, FALSE))
       ELSE Respond(p, OutOfSchedule(nextSession))
    /\ UNCHANGED <<attendance_records, hist>>
    /\ ScanFrame

\* ScanInsert that classifies the scan again when it writes, by the member's row
\* of greatest id at that moment
ScanInsertReclassify(p, err) ==
    /\ scan[p].pc = "insert"
    /\ IF err
       THEN /\ Respond(p, Resp(500, "", NoRow, FALSE))
            /\ UNCHANGED <<attendance_records, hist>>
       ELSE LET isCheckin ==
                    \/ RecordsOf(attendance_records, scan[p].member) = {}
                    \/ ~attendance_records[MaxId(attendance_records,
                                                 scan[p].member)].is_checkin
            IN  /\ Inserted(attendance_records) < MaxRecords
                /\ hist' = ScannedHist
                /\ attendance_records' =
                       recordAttendance(attendance_records, scan[p].member,
                                        isCheckin, scan[p].needsReview, clk)
                /\ scan' = [scan EXCEPT ![p].pc = "done", ![p].wrote = @ + 1,
                               ![p].resp = Resp(200,
                                   IF isCheckin THEN "check-in" ELSE "check-out",
                                   NoRow,
                                   scan[p].session # NoRow /\ isCheckin
                                     /\ scan[p].needsReview)]
    /\ ScanFrame

\* ScanInsert whose row is inserted also when the request is answered 500
ScanInsertThenFail(p, err) ==
    /\ scan[p].pc = "insert"
    /\ Inserted(attendance_records) < MaxRecords
    /\ hist' = ScannedHist
    /\ attendance_records' =
           recordAttendance(attendance_records, scan[p].member,
                            scan[p].isCheckin, scan[p].needsReview, clk)
    /\ scan' = [scan EXCEPT ![p].pc = "done", ![p].wrote = @ + 1,
                   ![p].resp = IF err THEN Resp(500, "", NoRow, FALSE)
                               ELSE Resp(200,
                                     IF scan[p].isCheckin THEN "check-in" ELSE "check-out",
                                     NoRow,
                                     scan[p].session # NoRow /\ scan[p].isCheckin
                                       /\ scan[p].needsReview)]
    /\ ScanFrame

\* server.js:454-480: the INSERT of recordAttendance and its callback
ScanInsert(p, err) ==
    /\ scan[p].pc = "insert"
    /\ IF err
       THEN /\ Respond(p, Resp(500, "", NoRow, FALSE))
            /\ UNCHANGED <<attendance_records, hist>>
       ELSE /\ Inserted(attendance_records) < MaxRecords
            /\ hist' = ScannedHist
            /\ attendance_records' =
                   recordAttendance(attendance_records, scan[p].member,
                                    scan[p].isCheckin, scan[p].needsReview, clk)
            /\ scan' = [scan EXCEPT ![p].pc = "done", ![p].wrote = @ + 1,
                           ![p].resp = Resp(200,
                               IF scan[p].isCheckin THEN "check-in" ELSE "check-out",
                               NoRow,
                               scan[p].session # NoRow /\ scan[p].isCheckin
                                 /\ scan[p].needsReview)]
    /\ ScanFrame

----------------------------------------------------------------------------
(* performMeetingEndLogout (server.js:65-99)                               *)

\* the slots of the passes that may be in flight together
PassIds == DOMAIN pass

\* a pass slot: checkedInMembers is the array the statement gave, pending the
\* rows whose recordAutoLogout has not called back, processed and errors the
\* counters of server.js:79-80; read tells that getCurrentlyCheckedInMembers has
\* called back without an error; written lists the members whose INSERT succeeded
IdlePass ==
    [pc |-> "idle", read |-> FALSE, checkedInMembers |-> {}, pending |-> {},
     processed |-> 0, errors |-> 0, written |-> << >>]

PassFrame ==
    UNCHANGED <<meeting_schedules, meetingSchedulers, cronTasks, rearm, admin, clk, scan,
                faulty, ev>>

\* hist.running: the passes in flight that have read the checked-in members with
\* no row inserted by a scan since and no failed INSERT of their own;
\* hist.clean: such a pass has completed and no scan has inserted a row since
CleanHist(q, read, failed, done) ==
    LET running == IF failed THEN hist.running \ { q }
                   ELSE IF read THEN hist.running \cup { q }
                   ELSE hist.running
    IN  [clean |-> hist.clean \/ (done /\ q \in running),
         running |-> IF done THEN running \ { q } ELSE running]

\* database.js:346-354: the callback of SELECT COUNT(*)
PassCount(q, err) ==
    /\ pass[q].pc = "count"
    /\ IF err \/ Len(attendance_records) = 0
       THEN /\ pass' = [pass EXCEPT ![q].pc = "done", ![q].read = ~err]
            /\ hist' = CleanHist(q, ~err, err, TRUE)
       ELSE /\ pass' = [pass EXCEPT ![q].pc = "query"]
            /\ UNCHANGED hist
    /\ UNCHANGED attendance_records
    /\ PassFrame

\* database.js:357-367 and server.js:68-97: the callback of the main statement,
\* which calls recordAutoLogout for every row
PassQuery(q, err) ==
    /\ pass[q].pc = "query"
    /\ IF err \/ getCurrentlyCheckedInMembers(attendance_records) = {}
       THEN /\ pass' = [pass EXCEPT ![q].pc = "done", ![q].read = ~err]
            /\ hist' = CleanHist(q, ~err, err, TRUE)
       ELSE /\ pass' = [pass EXCEPT ![q].pc = "write", ![q].read = TRUE,
                           ![q].checkedInMembers =
                               getCurrentlyCheckedInMembers(attendance_records),
                           ![q].pending = getCurrentlyCheckedInMembers(attendance_records)]
            /\ hist' = CleanHist(q, TRUE, FALSE, FALSE)
    /\ UNCHANGED attendance_records
    /\ PassFrame

\* PassWrite that gives up the pass at the first INSERT that fails
PassWriteAbort(q, member, err) ==
    /\ pass[q].pc = "write"
    /\ member \in pass[q].pending
    /\ hist' = CleanHist(q, FALSE, err,
                         err \/ pass[q].processed + 1 = Cardinality(pass[q].checkedInMembers))
    /\ IF err
       THEN /\ UNCHANGED attendance_records
            /\ pass' = [pass EXCEPT ![q].pending = {}, ![q].processed = @ + 1,
                           ![q].errors = @ + 1, ![q].pc = "done"]
       ELSE /\ Inserted(attendance_records) < MaxRecords
            /\ attendance_records' = recordAutoLogout(attendance_records, member.id, clk)
            /\ pass' = [pass EXCEPT ![q].pending = @ \ { member },
                           ![q].processed = @ + 1,
                           ![q].written = Append(@, member.id),
                           ![q].pc = IF pass[q].processed + 1
                                          = Cardinality(pass[q].checkedInMembers)
                                     THEN "done" ELSE "write"]
    /\ PassFrame

\* PassWrite that calls recordAutoLogout again for a member whose INSERT failed
PassWriteRetry(q, member, err) ==
    /\ pass[q].pc = "write"
    /\ member \in pass[q].pending
    /\ IF err
       THEN /\ UNCHANGED attendance_records
            /\ hist' = CleanHist(q, FALSE, TRUE, FALSE)
            /\ pass' = [pass EXCEPT ![q].errors = IF @ = 0 THEN 1 ELSE @]
       ELSE /\ Inserted(attendance_records) < MaxRecords
            /\ hist' = CleanHist(q, FALSE, FALSE,
                                 pass[q].processed + 1
                                     = Cardinality(pass[q].checkedInMembers))
            /\ attendance_records' = recordAutoLogout(attendance_records, member.id, clk)
            /\ pass' = [pass EXCEPT ![q].pending = @ \ { member },
                           ![q].processed = @ + 1,
                           ![q].written = Append(@, member.id),
                           ![q].pc = IF pass[q].processed + 1
                                          = Cardinality(pass[q].checkedInMembers)
                                     THEN "done" ELSE "write"]
    /\ PassFrame

\* server.js:83-96: one recordAutoLogout INSERT and its callback
PassWrite(q, member, err) ==
    /\ pass[q].pc = "write"
    /\ member \in pass[q].pending
    /\ hist' = CleanHist(q, FALSE, err,
                         pass[q].processed + 1 = Cardinality(pass[q].checkedInMembers))
    /\ IF err
       THEN /\ UNCHANGED attendance_records
            /\ pass' = [pass EXCEPT ![q].pending = @ \ { member },
                           ![q].processed = @ + 1, ![q].errors = @ + 1,
                           ![q].pc = IF pass[q].processed + 1
                                          = Cardinality(pass[q].checkedInMembers)
                                     THEN "done" ELSE "write"]
       ELSE /\ Inserted(attendance_records) < MaxRecords
            /\ attendance_records' = recordAutoLogout(attendance_records, member.id, clk)
            /\ pass' = [pass EXCEPT ![q].pending = @ \ { member },
                           ![q].processed = @ + 1,
                           ![q].written = Append(@, member.id),
                           ![q].pc = IF pass[q].processed + 1
                                          = Cardinality(pass[q].checkedInMembers)
                                     THEN "done" ELSE "write"]
    /\ PassFrame

----------------------------------------------------------------------------
(* PUT /api/flagged-records/:id/review (server.js:605-615)                 *)

\* markRecordAsReviewed with an UPDATE that has no WHERE clause
markRecordAsReviewedAll(recs, recordId) ==
    [i \in DOMAIN recs |-> [recs[i] EXCEPT !.needs_review = FALSE]]

\* markRecordAsReviewed: UPDATE attendance_records SET needs_review = 0 WHERE id = ?
markRecordAsReviewed(recs, recordId) ==
    [i \in DOMAIN recs |->
        IF i = recordId THEN [recs[i] EXCEPT !.needs_review = FALSE] ELSE recs[i]]

\* server.js:605-615: the request, the UPDATE and its callback, which answers 500
\* on an error and success otherwise; the id may be one no row has
Review(recordId, err) ==
    /\ recordId \in 1..(Len(attendance_records) + 1)
    /\ attendance_records' =
           IF err THEN attendance_records
           ELSE markRecordAsReviewed(attendance_records, recordId)
    /\ UNCHANGED <<meeting_schedules, meetingSchedulers, cronTasks, rearm, admin, clk,
                   scan, pass, faulty, hist, ev>>

----------------------------------------------------------------------------
(* initializeMeetingScheduler (server.js:20-62) and the management API     *)
(* (server.js:617-757)                                                     *)

\* the key under which meetingSchedulers registers the task of a session
SchedulerId(dayOfWeek, sessionNumber) == <<dayOfWeek, sessionNumber>>

\* a PUT entry: the properties the handler reads; Missing is a property the
\* payload does not have
Missing == << >>

Entry(d, n, start, end) ==
    [dayOfWeek |-> d, sessionNumber |-> n, startTime |-> start, endTime |-> end]

\* a PUT request: schedules is the payload, toDelete the rows whose
\* deleteMeetingSchedule has not called back, toUpdate the indices of the entries
\* whose updateMeetingSchedule has not called back
IdlePut ==
    [pc |-> "idle", array |-> TRUE, schedules |-> << >>, toDelete |-> {}, toUpdate |-> {},
     totalOperations |-> 0, completed |-> 0, errors |-> 0, status |-> 0]

IdleDelete == [pc |-> "idle", dayOfWeek |-> -1, sessionNumber |-> 0, status |-> 0]

\* the body of GET /api/meeting-schedules/current
Status(status, active, session) ==
    [status |-> status, active |-> active, session |-> session]

NoStatus == Status(0, FALSE, NoRow)

IdleCurrent == [pc |-> "idle", checkAt |-> 0, nextAt |-> 0, resp |-> NoStatus]

\* requests counts the requests that may change the schedule or the tasks;
\* trigger and refresh are the status of the last answer of their routes
IdleAdmin ==
    [requests |-> 0, put |-> IdlePut, del |-> IdleDelete, cur |-> IdleCurrent,
     trigger |-> 0, refresh |-> 0]

AdminFrame == UNCHANGED <<clk, attendance_records, scan, pass, faulty, hist, ev>>

\* the administrator sends one management request at a time, MaxRequests in all,
\* and keeps the answer of the latest one only; GET requests are not counted
Quiet ==
    /\ admin.requests < MaxRequests
    /\ admin.put.pc \in { "idle", "done" }
    /\ admin.del.pc \in { "idle", "done" }

NextRequest == [IdleAdmin EXCEPT !.requests = admin.requests + 1, !.cur = admin.cur]

\* server.js:21-26: initializeMeetingScheduler stops the registered tasks, empties
\* the registry and calls getMeetingSchedules; its callback is RearmArm
initializeMeetingScheduler ==
    /\ cronTasks' = cronTasks \ meetingSchedulers
    /\ meetingSchedulers' = {}
    /\ rearm' = [rearm EXCEPT !.calls = @ + 1, !.pending = @ \cup { rearm.calls + 1 },
                    !.previous = [n \in rearm.pending \cup { rearm.calls + 1 } |->
                                    IF n \in rearm.pending THEN @[n] ELSE cronTasks]]

\* server.js:26-61: the callback of getMeetingSchedules in call n: a task is
\* started for every active row and stored under its schedulerId, over the task
\* the registry may hold there
RearmArm(n, err) ==
    /\ n \in rearm.pending
    /\ rearm' = [rearm EXCEPT !.pending = @ \ { n },
                    !.failed = IF err THEN @ \cup { n } ELSE @,
                    !.previous = [m \in rearm.pending \ { n } |-> @[m]]]
    /\ IF err
       THEN UNCHANGED <<meetingSchedulers, cronTasks>>
       ELSE LET started == Tasks(n, meeting_schedules)
            IN  /\ cronTasks' = cronTasks \cup started
                /\ meetingSchedulers' =
                       { t \in meetingSchedulers :
                           \A u \in started : u.job.schedulerId # t.job.schedulerId }
                         \cup started
    /\ UNCHANGED <<meeting_schedules, admin>>
    /\ AdminFrame

\* server.js:749-757: POST /api/meeting-schedules/refresh
Refresh ==
    /\ Quiet
    /\ initializeMeetingScheduler
    /\ admin' = [NextRequest EXCEPT !.refresh = 200]
    /\ UNCHANGED meeting_schedules
    /\ AdminFrame

\* server.js:618-621: POST /api/trigger-auto-logout calls performAutoLogout, a
\* name the program does not define: the call throws a ReferenceError, which
\* express answers with status 500; performMeetingEndLogout is not called
TriggerAutoLogout ==
    /\ Quiet
    /\ admin' = [NextRequest EXCEPT !.trigger = 500]
    /\ UNCHANGED <<meeting_schedules, meetingSchedulers, cronTasks, rearm>>
    /\ AdminFrame

\* deleteMeetingSchedule: UPDATE ... SET is_active = false WHERE the key matches
deleteMeetingSchedule(table, dayOfWeek, sessionNumber) ==
    { IF s.day_of_week = dayOfWeek /\ s.session_number = sessionNumber
      THEN [s EXCEPT !.is_active = FALSE]
      ELSE s : s \in table }

\* server.js:727-731: DELETE /api/meeting-schedules/:day/:session arrives
DeleteRequest(dayOfWeek, sessionNumber) ==
    /\ Quiet
    /\ admin' = [NextRequest EXCEPT
                    !.del = [pc |-> "run", dayOfWeek |-> dayOfWeek,
                             sessionNumber |-> sessionNumber, status |-> 0]]
    /\ UNCHANGED <<meeting_schedules, meetingSchedulers, cronTasks, rearm>>
    /\ AdminFrame

\* server.js:731-745: the UPDATE of deleteMeetingSchedule and its callback, which
\* stops and unregisters the task stored under the session's schedulerId
DeleteDone(err) ==
    /\ admin.del.pc = "run"
    /\ IF err
       THEN /\ admin' = [admin EXCEPT !.del.pc = "done", !.del.status = 500]
            /\ UNCHANGED <<meeting_schedules, meetingSchedulers, cronTasks>>
       ELSE LET schedulerId == SchedulerId(admin.del.dayOfWeek, admin.del.sessionNumber)
                stopped == { t \in meetingSchedulers : t.job.schedulerId = schedulerId }
            IN  /\ meeting_schedules' =
                       deleteMeetingSchedule(meeting_schedules, admin.del.dayOfWeek,
                                             admin.del.sessionNumber)
                /\ meetingSchedulers' = meetingSchedulers \ stopped
                /\ cronTasks' = cronTasks \ stopped
                /\ admin' = [admin EXCEPT !.del.pc = "done", !.del.status = 200]
    /\ UNCHANGED rearm
    /\ AdminFrame

\* a PUT body: schedules is an array or something else
Payload(list) == [array |-> TRUE, schedules |-> list]

NotArray == [array |-> FALSE, schedules |-> << >>]

\* updateMeetingSchedule as a plain INSERT into a table without the UNIQUE key
updateMeetingScheduleInsert(table, entry) ==
    table \cup { Row(entry.dayOfWeek, entry.sessionNumber, entry.startTime, entry.endTime,
                     TRUE) }

\* updateMeetingSchedule as an UPDATE of the times that leaves is_active of a row
\* that exists as it is
updateMeetingScheduleKeepFlag(table, entry) ==
    LET old == { s \in table : s.day_of_week = entry.dayOfWeek
                                 /\ s.session_number = entry.sessionNumber }
    IN  (table \ old)
          \cup { Row(entry.dayOfWeek, entry.sessionNumber, entry.startTime, entry.endTime,
                     \A s \in old : s.is_active) }

\* updateMeetingSchedule: INSERT OR REPLACE, which removes the row of the same
\* (day_of_week, session_number) and inserts an active one
updateMeetingSchedule(table, entry) ==
    { s \in table : ~(s.day_of_week = entry.dayOfWeek
                        /\ s.session_number = entry.sessionNumber) }
      \cup { Row(entry.dayOfWeek, entry.sessionNumber, entry.startTime, entry.endTime,
                 TRUE) }

\* start_time TEXT NOT NULL, end_time TEXT NOT NULL: the INSERT fails on a NULL
ViolatesNotNull(entry) == entry.startTime = Missing \/ entry.endTime = Missing

\* Array.isArray that takes every body for an array
isArrayAlways(payload) == TRUE

\* server.js:659: Array.isArray(schedules)
isArray(payload) == payload.array

\* server.js:656-661: PUT /api/meeting-schedules arrives; put.array keeps what
\* kind of body it carried
PutRequest(payload) ==
    /\ Quiet
    /\ IF ~isArray(payload)
       THEN admin' = [NextRequest EXCEPT
                         !.put = [IdlePut EXCEPT !.pc = "done", !.status = 400,
                                     !.array = payload.array]]
       ELSE admin' = [NextRequest EXCEPT
                         !.put = [IdlePut EXCEPT !.pc = "read",
                                     !.array = payload.array,
                                     !.schedules = payload.schedules]]
    /\ UNCHANGED <<meeting_schedules, meetingSchedulers, cronTasks, rearm>>
    /\ AdminFrame

\* server.js:664-697 and 700-723: the callback of getMeetingSchedules, which
\* issues a deleteMeetingSchedule for every active row whose key is not in the
\* payload and an updateMeetingSchedule for every entry
PutRead(err) ==
    /\ admin.put.pc = "read"
    /\ LET schedules == admin.put.schedules
           newScheduleKeys ==
               { SchedulerId(schedules[i].dayOfWeek, schedules[i].sessionNumber) :
                   i \in DOMAIN schedules }
           schedulesToDelete ==
               { SchedulerId(c.day_of_week, c.session_number) :
                   c \in { r \in getMeetingSchedules(meeting_schedules) :
                             SchedulerId(r.day_of_week, r.session_number)
                               \notin newScheduleKeys } }
           totalOperations == Len(schedules) + Cardinality(schedulesToDelete)
       IN  IF err
           THEN /\ admin' = [admin EXCEPT !.put.pc = "done", !.put.status = 500]
                /\ UNCHANGED <<meetingSchedulers, cronTasks, rearm>>
           ELSE IF totalOperations = 0
                THEN /\ initializeMeetingScheduler
                     /\ admin' = [admin EXCEPT !.put.pc = "done", !.put.status = 200]
                ELSE /\ admin' = [admin EXCEPT !.put.pc = "ops",
                                     !.put.toDelete = schedulesToDelete,
                                     !.put.toUpdate = DOMAIN schedules,
                                     !.put.totalOperations = totalOperations]
                     /\ UNCHANGED <<meetingSchedulers, cronTasks, rearm>>
    /\ UNCHANGED meeting_schedules
    /\ AdminFrame

\* server.js:680-691: checkComplete, called with the request as the callback
\* leaves it
checkComplete(put) ==
    IF put.completed + 1 = put.totalOperations
    THEN IF put.errors = 0
         THEN /\ initializeMeetingScheduler
              /\ admin' = [admin EXCEPT !.put = [put EXCEPT !.completed = @ + 1,
                                                     !.pc = "done", !.status = 200]]
         ELSE /\ admin' = [admin EXCEPT !.put = [put EXCEPT !.completed = @ + 1,
                                                     !.pc = "done", !.status = 500]]
              /\ UNCHANGED <<meetingSchedulers, cronTasks, rearm>>
    ELSE /\ admin' = [admin EXCEPT !.put = [put EXCEPT !.completed = @ + 1]]
         /\ UNCHANGED <<meetingSchedulers, cronTasks, rearm>>

\* server.js:700-710: one deleteMeetingSchedule and its callback
PutDelete(key, err) ==
    /\ admin.put.pc = "ops"
    /\ key \in admin.put.toDelete
    /\ meeting_schedules' =
           IF err THEN meeting_schedules
           ELSE deleteMeetingSchedule(meeting_schedules, key[1], key[2])
    /\ checkComplete([admin.put EXCEPT !.toDelete = @ \ { key },
                         !.errors = IF err THEN @ + 1 ELSE @])
    /\ AdminFrame

\* server.js:713-723: one updateMeetingSchedule and its callback
PutUpdate(i, err) ==
    /\ admin.put.pc = "ops"
    /\ i \in admin.put.toUpdate
    /\ LET failed == err \/ ViolatesNotNull(admin.put.schedules[i])
       IN  /\ meeting_schedules' =
                  IF failed THEN meeting_schedules
                  ELSE updateMeetingSchedule(meeting_schedules, admin.put.schedules[i])
           /\ checkComplete([admin.put EXCEPT !.toUpdate = @ \ { i },
                                !.errors = IF failed THEN @ + 1 ELSE @])
    /\ AdminFrame

CurrentFrame ==
    UNCHANGED <<meeting_schedules, meetingSchedulers, cronTasks, rearm>>

\* server.js:634-635: GET /api/meeting-schedules/current arrives
CurrentRequest ==
    /\ admin.cur.pc \in { "idle", "done" }
    /\ admin' = [admin EXCEPT !.cur = [IdleCurrent EXCEPT !.pc = "within",
                                          !.checkAt = clk]]
    /\ CurrentFrame
    /\ AdminFrame

\* CurrentWithin whose statement has end_time > ? in place of end_time >= ?
CurrentWithinEndExclusive(err, activeSession) ==
    /\ admin.cur.pc = "within"
    /\ \/ activeSession \in WithinRowsEndExclusive(meeting_schedules,
                                 DayOfWeek(Timeline[admin.cur.checkAt]),
                                 CurrentTime(Timeline[admin.cur.checkAt]))
       \/ /\ activeSession = NoRow
          /\ WithinRowsEndExclusive(meeting_schedules,
                                    DayOfWeek(Timeline[admin.cur.checkAt]),
                                    CurrentTime(Timeline[admin.cur.checkAt])) = {}
    /\ IF err
       THEN admin' = [admin EXCEPT !.cur.pc = "done",
                         !.cur.resp = Status(500, FALSE, NoRow)]
       ELSE IF activeSession # NoRow
            THEN admin' = [admin EXCEPT !.cur.pc = "done",
                              !.cur.resp = Status(200, TRUE, activeSession)]
            ELSE admin' = [admin EXCEPT !.cur.pc = "next1", !.cur.nextAt = clk]
    /\ CurrentFrame
    /\ AdminFrame

\* server.js:635-653: the callback of isWithinMeetingSchedule
CurrentWithin(err, activeSession) ==
    /\ admin.cur.pc = "within"
    /\ activeSession \in isWithinMeetingSchedule(meeting_schedules,
                            DayOfWeek(Timeline[admin.cur.checkAt]),
                            CurrentTime(Timeline[admin.cur.checkAt]))
    /\ IF err
       THEN admin' = [admin EXCEPT !.cur.pc = "done",
                         !.cur.resp = Status(500, FALSE, NoRow)]
       ELSE IF activeSession # NoRow
            THEN admin' = [admin EXCEPT !.cur.pc = "done",
                              !.cur.resp = Status(200, TRUE, activeSession)]
            ELSE admin' = [admin EXCEPT !.cur.pc = "next1", !.cur.nextAt = clk]
    /\ CurrentFrame
    /\ AdminFrame

\* database.js:481-492 under GET current: the callback of the first statement
CurrentNextToday(err, todaySession) ==
    /\ admin.cur.pc = "next1"
    /\ \/ todaySession \in NextTodayRows(meeting_schedules,
                              DayOfWeek(Timeline[admin.cur.nextAt]),
                              CurrentTime(Timeline[admin.cur.nextAt]))
       \/ /\ todaySession = NoRow
          /\ NextTodayRows(meeting_schedules, DayOfWeek(Timeline[admin.cur.nextAt]),
                           CurrentTime(Timeline[admin.cur.nextAt])) = {}
    /\ IF ~err /\ todaySession # NoRow
       THEN admin' = [admin EXCEPT !.cur.pc = "done",
                         !.cur.resp = Status(200, FALSE, todaySession)]
       ELSE admin' = [admin EXCEPT !.cur.pc = "next2"]
    /\ CurrentFrame
    /\ AdminFrame

\* database.js:495-504 and server.js:646-651: the callback of the second statement;
\* the handler does not look at err and answers nextSession || null
CurrentNextWeek(err, nextSession) ==
    /\ admin.cur.pc = "next2"
    /\ \/ nextSession \in NextWeekRows(meeting_schedules,
                             DayOfWeek(Timeline[admin.cur.nextAt]))
       \/ /\ nextSession = NoRow
          /\ NextWeekRows(meeting_schedules, DayOfWeek(Timeline[admin.cur.nextAt])) = {}
    /\ admin' = [admin EXCEPT !.cur.pc = "done",
                    !.cur.resp = Status(200, FALSE, IF err THEN NoRow ELSE nextSession)]
    /\ CurrentFrame
    /\ AdminFrame

----------------------------------------------------------------------------
(* The clock and node-cron                                                 *)

\* the armed jobs whose expression matches the instant the clock reaches
Firing(i) ==
    IF Timeline[i] = Timeline[i - 1]
    THEN {}
    ELSE { t \in cronTasks : CronMatches(t.job, Timeline[i]) }

FreePasses == { q \in PassIds : pass[q].pc \in { "idle", "done" } }

\* Tick with tasks that are stopped once they have fired
TickOneShot ==
    /\ clk < MaxClock
    /\ clk' = clk + 1
    /\ \E starting \in SUBSET FreePasses :
          /\ Cardinality(starting) = Cardinality(Firing(clk + 1))
          /\ \A q \in FreePasses \ starting : \A r \in starting : r < q
          /\ pass' = [q \in PassIds |->
                        IF q \in starting THEN [IdlePass EXCEPT !.pc = "count"]
                        ELSE pass[q]]
    /\ cronTasks' = cronTasks \ Firing(clk + 1)
    /\ meetingSchedulers' = meetingSchedulers \ Firing(clk + 1)
    /\ UNCHANGED <<meeting_schedules, rearm, admin,
                   attendance_records, scan, faulty, hist, ev>>

\* the clock reaches the next instant; every armed job that matches it fires and
\* calls performMeetingEndLogout (server.js:57-59, 65-68)
Tick ==
    /\ clk < MaxClock
    /\ clk' = clk + 1
    /\ \E starting \in SUBSET FreePasses :
          /\ Cardinality(starting) = Cardinality(Firing(clk + 1))
          /\ \A q \in FreePasses \ starting : \A r \in starting : r < q
          /\ pass' = [q \in PassIds |->
                        IF q \in starting THEN [IdlePass EXCEPT !.pc = "count"]
                        ELSE pass[q]]
    /\ UNCHANGED <<meeting_schedules, meetingSchedulers, cronTasks, rearm, admin,
                   attendance_records, scan, faulty, hist, ev>>

----------------------------------------------------------------------------
(* The engine: scans, passes and the clock                                 *)

T(h, m) == TimeText(h, m)

\* two sessions on Monday, as createDefaultMeetingSchedules makes them
TableDefault == { Row(1, 1, T(8, 0), T(12, 0), TRUE), Row(1, 2, T(13, 0), T(17, 0), TRUE) }

\* the only session has been soft-deleted: no active session exists
TableDeleted == { Row(1, 1, T(8, 0), T(12, 0), FALSE) }

SpecTables == { TableDefault, TableDeleted }

\* the rows attendance.db may hold when the server starts: none, or members
\* checked in before the clock's first instant
StartRecords ==
    { << >>,
      << Record(1, 0, TRUE, FALSE, FALSE) >>,
      << Record(1, 0, TRUE, FALSE, FALSE), Record(2, 0, TRUE, FALSE, FALSE) >> }

NoEv == [fn |-> "", result |-> NoRow]

InitEngine(scans, passes) ==
    /\ meeting_schedules \in SpecTables
    /\ meetingSchedulers = Tasks(0, meeting_schedules)
    /\ cronTasks = meetingSchedulers
    /\ rearm = NoRearm
    /\ admin = IdleAdmin
    /\ clk = 1
    /\ attendance_records \in StartRecords
    /\ scan = [p \in 1..scans |-> IdleScan]
    /\ pass = [q \in 1..passes |-> IdlePass]
    /\ hist = [clean |-> FALSE, running |-> {}]
    /\ ev = NoEv

\* one kiosk: a scan request is answered before the next one arrives
Init == InitEngine(1, 1) /\ faulty = {}

InitFault == InitEngine(1, 1) /\ faulty = { "pass" }

Next ==
    \/ \E p \in ScanIds, barcode \in Barcodes : ScanRequest(p, barcode)
    \/ \E p \in ScanIds, err \in Errs("scan") : ScanMember(p, err)
    \/ \E p \in ScanIds, err \in Errs("scan"), lastScan \in 0..Len(attendance_records) :
          ScanLastScan(p, err, lastScan)
    \/ \E p \in ScanIds, err \in Errs("scan"), s \in meeting_schedules \cup { NoRow } :
          ScanWithin(p, err, s)
    \/ \E p \in ScanIds, err \in Errs("scan"), s \in meeting_schedules \cup { NoRow } :
          ScanNextToday(p, err, s)
    \/ \E p \in ScanIds, err \in Errs("scan"), s \in meeting_schedules \cup { NoRow } :
          ScanNextWeek(p, err, s)
    \/ \E p \in ScanIds, err \in Errs("scan") : ScanInsert(p, err)
    \/ \E q \in PassIds, err \in Errs("pass") : PassCount(q, err)
    \/ \E q \in PassIds, err \in Errs("pass") : PassQuery(q, err)
    \/ \E q \in PassIds, err \in Errs("pass") : \E member \in pass[q].pending :
          PassWrite(q, member, err)
    \/ Tick

\* the engine with a storage that never fails
Spec == Init /\ [][Next]_vars

\* the engine with a storage whose statements may fail in the auto-logout pass
SpecFault == InitFault /\ [][Next]_vars

\* the engine with a storage whose statements may fail in the scan handler; the
\* default sessions, no row or member 1 checked in when the server starts
InitScanFault ==
    /\ InitEngine(1, 1)
    /\ meeting_schedules = TableDefault
    /\ Len(attendance_records) <= 1
    /\ faulty = { "scan" }

SpecScanFault == InitScanFault /\ [][Next]_vars

\* two kiosks: two scan requests may be in flight together; the default sessions
\* and no row when the server starts
InitTwoScans ==
    /\ InitEngine(2, 1)
    /\ meeting_schedules = TableDefault
    /\ attendance_records = << >>
    /\ faulty = {}

\* each kiosk sends one request, with the barcode of member 1
NextTwoScans ==
    \/ \E p \in ScanIds : scan[p].pc = "idle" /\ ScanRequest(p, "A")
    \/ \E p \in ScanIds, err \in Errs("scan") : ScanMember(p, err)
    \/ \E p \in ScanIds, err \in Errs("scan"), lastScan \in 0..Len(attendance_records) :
          ScanLastScan(p, err, lastScan)
    \/ \E p \in ScanIds, err \in Errs("scan"), s \in meeting_schedules \cup { NoRow } :
          ScanWithin(p, err, s)
    \/ \E p \in ScanIds, err \in Errs("scan"), s \in meeting_schedules \cup { NoRow } :
          ScanNextToday(p, err, s)
    \/ \E p \in ScanIds, err \in Errs("scan"), s \in meeting_schedules \cup { NoRow } :
          ScanNextWeek(p, err, s)
    \/ \E p \in ScanIds, err \in Errs("scan") : ScanInsert(p, err)
    \/ \E q \in PassIds, err \in Errs("pass") : PassCount(q, err)
    \/ \E q \in PassIds, err \in Errs("pass") : PassQuery(q, err)
    \/ \E q \in PassIds, err \in Errs("pass") : \E member \in pass[q].pending :
          PassWrite(q, member, err)
    \/ Tick

SpecTwoScans == InitTwoScans /\ [][NextTwoScans]_vars

----------------------------------------------------------------------------
(* The engine with two sessions that end together: two passes at a time    *)

\* two sessions on Monday that end at 12:00: their tasks fire together at 12:15
TableSameEnd == { Row(1, 1, T(8, 0), T(12, 0), TRUE), Row(1, 2, T(10, 0), T(12, 0), TRUE) }

\* member 1, or members 1 and 2, checked in when the server starts; one kiosk,
\* room for two passes at a time
InitTwoPasses ==
    /\ meeting_schedules = TableSameEnd
    /\ meetingSchedulers = Tasks(0, meeting_schedules)
    /\ cronTasks = meetingSchedulers
    /\ rearm = NoRearm
    /\ admin = IdleAdmin
    /\ clk = 1
    /\ attendance_records \in StartRecords \ { << >> }
    /\ scan = [p \in 1..1 |-> IdleScan]
    /\ pass = [q \in 1..2 |-> IdlePass]
    /\ faulty = {}
    /\ hist = [clean |-> FALSE, running |-> {}]
    /\ ev = NoEv

SpecTwoPasses == InitTwoPasses /\ [][NextTwoScans]_vars

----------------------------------------------------------------------------
(* The engine with a member who scans once                                 *)

\* one session that lasts all Monday
TableAllDay == { Row(1, 1, T(0, 0), T(23, 59), TRUE) }

\* the default sessions or the all-day session, their tasks running; no member
\* has a row; one kiosk, which sends one request
InitLogout ==
    /\ meeting_schedules \in { TableDefault, TableAllDay }
    /\ meetingSchedulers = Tasks(0, meeting_schedules)
    /\ cronTasks = meetingSchedulers
    /\ rearm = NoRearm
    /\ admin = IdleAdmin
    /\ clk = 1
    /\ attendance_records = << >>
    /\ scan = [p \in 1..1 |-> IdleScan]
    /\ pass = [q \in 1..1 |-> IdlePass]
    /\ faulty = {}
    /\ hist = [clean |-> FALSE, running |-> {}]
    /\ ev = NoEv

SpecLogout == InitLogout /\ [][NextTwoScans]_vars

----------------------------------------------------------------------------
(* The engine with the review of flagged records                           *)

\* the default sessions; no row or member 1 checked in when the server starts
InitReview ==
    /\ InitEngine(1, 1)
    /\ meeting_schedules = TableDefault
    /\ Len(attendance_records) <= 1
    /\ faulty = {}

NextReview ==
    \/ Next
    \/ \E recordId \in 1..(Len(attendance_records) + 1), err \in Errs("review") :
          Review(recordId, err)

SpecReview == InitReview /\ [][NextReview]_vars

----------------------------------------------------------------------------
(* The engine with the management API: the schedule and the tasks change   *)

\* the bodies PUT /api/meeting-schedules may carry: not an array; an empty list;
\* a list that moves the end of Monday's session 1 to 23:50 and names session 2
\* without its startTime; a list that keeps only Monday's session 2 and gives it
\* a start later than its end
PutPayloads ==
    { NotArray,
      Payload(<< >>),
      Payload(<< Entry(1, 1, T(8, 0), T(23, 50)), Entry(1, 2, Missing, T(17, 0)) >>),
      Payload(<< Entry(1, 2, T(17, 0), T(13, 0)) >>) }

\* the sessions DELETE may name: one of the table, one that is not there
DeleteKeys == { SchedulerId(1, 2), SchedulerId(2, 1) }

\* the instant the server starts at: Monday 12:15, when the logout time of
\* session 1 has just passed
SchedStart == 4

\* the server just started (server.js:102-104): the default Monday sessions, the
\* first initializeMeetingScheduler in flight, one member checked in, room for
\* two passes at a time; getMeetingSchedules may fail in a rearm
InitSched ==
    /\ meeting_schedules = TableDefault
    /\ meetingSchedulers = {}
    /\ cronTasks = {}
    /\ rearm = [NoRearm EXCEPT !.calls = 1, !.pending = { 1 },
                           !.previous = [n \in { 1 } |-> {}]]
    /\ admin = IdleAdmin
    /\ clk = SchedStart
    /\ attendance_records = << Record(1, 0, TRUE, FALSE, FALSE) >>
    /\ scan = << >>
    /\ pass = [q \in 1..2 |-> IdlePass]
    /\ faulty = { "rearm" }
    /\ hist = [clean |-> FALSE, running |-> {}]
    /\ ev = NoEv

NextSched ==
    \/ Refresh
    \/ TriggerAutoLogout
    \/ \E key \in DeleteKeys : DeleteRequest(key[1], key[2])
    \/ \E err \in Errs("admin") : DeleteDone(err)
    \/ \E payload \in PutPayloads : PutRequest(payload)
    \/ \E err \in Errs("admin") : PutRead(err)
    \/ \E err \in Errs("admin") : \E key \in admin.put.toDelete : PutDelete(key, err)
    \/ \E err \in Errs("admin") : \E i \in admin.put.toUpdate : PutUpdate(i, err)
    \/ \E err \in Errs("rearm") : \E n \in rearm.pending : RearmArm(n, err)
    \/ \E q \in PassIds, err \in Errs("pass") : PassCount(q, err)
    \/ \E q \in PassIds, err \in Errs("pass") : PassQuery(q, err)
    \/ \E q \in PassIds, err \in Errs("pass") : \E member \in pass[q].pending :
          PassWrite(q, member, err)
    \/ Tick

SpecSched == InitSched /\ [][NextSched]_vars

----------------------------------------------------------------------------
(* The readers of the schedule with DELETE and refresh                     *)

\* the server runs with the default sessions and their tasks at some instant of
\* Monday; no member has a row; one kiosk
InitDelete ==
    /\ meeting_schedules = TableDefault
    /\ meetingSchedulers = Tasks(0, meeting_schedules)
    /\ cronTasks = meetingSchedulers
    /\ rearm = NoRearm
    /\ admin = IdleAdmin
    /\ clk \in 1..MaxClock
    /\ attendance_records = << >>
    /\ scan = [p \in 1..1 |-> IdleScan]
    /\ pass = << >>
    /\ faulty = {}
    /\ hist = [clean |-> FALSE, running |-> {}]
    /\ ev = NoEv

\* DELETE and refresh requests, scans of member 1 and GET current, at one instant
NextDelete ==
    \/ \E key \in DeleteKeys : DeleteRequest(key[1], key[2])
    \/ \E err \in Errs("admin") : DeleteDone(err)
    \/ Refresh
    \/ \E err \in Errs("rearm") : \E n \in rearm.pending : RearmArm(n, err)
    \/ \E p \in ScanIds : ScanRequest(p, "A")
    \/ \E p \in ScanIds, err \in Errs("scan") : ScanMember(p, err)
    \/ \E p \in ScanIds, err \in Errs("scan"), lastScan \in 0..Len(attendance_records) :
          ScanLastScan(p, err, lastScan)
    \/ \E p \in ScanIds, err \in Errs("scan"), s \in meeting_schedules \cup { NoRow } :
          ScanWithin(p, err, s)
    \/ \E p \in ScanIds, err \in Errs("scan"), s \in meeting_schedules \cup { NoRow } :
          ScanNextToday(p, err, s)
    \/ \E p \in ScanIds, err \in Errs("scan"), s \in meeting_schedules \cup { NoRow } :
          ScanNextWeek(p, err, s)
    \/ \E p \in ScanIds, err \in Errs("scan") : ScanInsert(p, err)
    \/ CurrentRequest
    \/ \E err \in Errs("current"), s \in meeting_schedules \cup { NoRow } :
          CurrentWithin(err, s)
    \/ \E err \in Errs("current"), s \in meeting_schedules \cup { NoRow } :
          CurrentNextToday(err, s)
    \/ \E err \in Errs("current"), s \in meeting_schedules \cup { NoRow } :
          CurrentNextWeek(err, s)

SpecDelete == InitDelete /\ [][NextDelete]_vars

----------------------------------------------------------------------------
(* PUT and DELETE of the schedule alone                                    *)

\* the default sessions and a session on Tuesday that was soft-deleted
TablePast == TableDefault \cup { Row(2, 1, T(9, 0), T(11, 0), FALSE) }

\* the lists PUT carries: none; Monday's session 2 alone with new times; Monday's
\* session 1 and Tuesday's session 1, the latter with new times
PutLists ==
    { Payload(<< >>),
      Payload(<< Entry(1, 2, T(14, 0), T(18, 0)) >>),
      Payload(<< Entry(1, 1, T(8, 0), T(12, 0)), Entry(2, 1, T(9, 30), T(11, 30)) >>) }

\* the server runs with the tasks of the active sessions; a statement of the
\* management routes may fail
InitPut ==
    /\ meeting_schedules = TablePast
    /\ meetingSchedulers = Tasks(0, meeting_schedules)
    /\ cronTasks = meetingSchedulers
    /\ rearm = NoRearm
    /\ admin = IdleAdmin
    /\ clk = 1
    /\ attendance_records = << >>
    /\ scan = << >>
    /\ pass = << >>
    /\ faulty = { "admin" }
    /\ hist = [clean |-> FALSE, running |-> {}]
    /\ ev = NoEv

NextPut ==
    \/ \E key \in DeleteKeys : DeleteRequest(key[1], key[2])
    \/ \E err \in Errs("admin") : DeleteDone(err)
    \/ \E payload \in PutLists : PutRequest(payload)
    \/ \E err \in Errs("admin") : PutRead(err)
    \/ \E err \in Errs("admin") : \E key \in admin.put.toDelete : PutDelete(key, err)
    \/ \E err \in Errs("admin") : \E i \in admin.put.toUpdate : PutUpdate(i, err)
    \/ \E err \in Errs("rearm") : \E n \in rearm.pending : RearmArm(n, err)

SpecPut == InitPut /\ [][NextPut]_vars

----------------------------------------------------------------------------
(* The schedule evaluator alone: isWithinMeetingSchedule and               *)
(* getNextMeetingSession called on a table at an instant                   *)

\* the example of the specification: one session on Monday
TableExample == { Row(1, 1, T(8, 0), T(12, 0), TRUE) }

\* sessions before and after Monday in the week, one ending at 23:50
TableWeek ==
    TableDefault \cup { Row(3, 1, T(23, 0), T(23, 50), TRUE), Row(0, 1, T(9, 0), T(10, 0), TRUE) }

\* Monday's session soft-deleted, Tuesday's active
TableTomorrow ==
    { Row(1, 1, T(8, 0), T(12, 0), FALSE), Row(2, 1, T(8, 0), T(12, 0), TRUE) }

\* overlapping sessions, two of them starting together
TableOverlap ==
    { Row(1, 1, T(8, 0), T(12, 0), TRUE), Row(1, 2, T(11, 55), T(13, 0), TRUE),
      Row(1, 3, T(8, 0), T(9, 0), TRUE) }

\* session numbers not in the order of the start times
TableUnordered ==
    { Row(2, 1, T(13, 0), T(17, 0), TRUE), Row(2, 2, T(8, 0), T(12, 0), TRUE),
      Row(6, 1, T(10, 0), T(11, 0), TRUE) }

EvalTables ==
    { {}, TableExample, TableDefault, TableDeleted, TableWeek, TableTomorrow,
      TableOverlap, TableUnordered }

InitEval ==
    /\ meeting_schedules \in EvalTables
    /\ meetingSchedulers = {}
    /\ cronTasks = {}
    /\ rearm = NoRearm
    /\ admin = IdleAdmin
    /\ clk \in DOMAIN Timeline
    /\ attendance_records = << >>
    /\ scan = << >>
    /\ pass = << >>
    /\ faulty = {}
    /\ hist = [clean |-> FALSE, running |-> {}]
    /\ ev = NoEv

EvalFrame ==
    UNCHANGED <<meeting_schedules, meetingSchedulers, cronTasks, rearm, admin, clk,
                attendance_records, scan, pass, faulty, hist>>

\* database.js:460-472 at the instant Now
EvalWithin ==
    /\ \E r \in isWithinMeetingSchedule(meeting_schedules, DayOfWeek(Now), CurrentTime(Now)) :
          ev' = [fn |-> "isWithinMeetingSchedule", result |-> r]
    /\ EvalFrame

\* database.js:475-506 at the instant Now
EvalNext ==
    /\ \E r \in getNextMeetingSession(meeting_schedules, DayOfWeek(Now), CurrentTime(Now)) :
          ev' = [fn |-> "getNextMeetingSession", result |-> r]
    /\ EvalFrame

NextEval == EvalWithin \/ EvalNext

SpecEval == InitEval /\ [][NextEval]_vars

----------------------------------------------------------------------------
(* GET /api/meeting-schedules/current and the gate of the scan handler, on  *)
(* a table at an instant                                                   *)

\* a table and an instant; no member has a row, so that the scan of member 1 is
\* a check-in; one kiosk
InitStatus ==
    /\ meeting_schedules \in EvalTables
    /\ meetingSchedulers = {}
    /\ cronTasks = {}
    /\ rearm = NoRearm
    /\ admin = IdleAdmin
    /\ clk \in DOMAIN Timeline
    /\ attendance_records = << >>
    /\ scan = [p \in 1..1 |-> IdleScan]
    /\ pass = << >>
    /\ faulty = {}
    /\ hist = [clean |-> FALSE, running |-> {}]
    /\ ev = NoEv

\* one scan of member 1 and one GET current
NextStatus ==
    \/ \E p \in ScanIds : scan[p].pc = "idle" /\ ScanRequest(p, "A")
    \/ \E p \in ScanIds, err \in Errs("scan") : ScanMember(p, err)
    \/ \E p \in ScanIds, err \in Errs("scan"), lastScan \in 0..Len(attendance_records) :
          ScanLastScan(p, err, lastScan)
    \/ \E p \in ScanIds, err \in Errs("scan"), s \in meeting_schedules \cup { NoRow } :
          ScanWithin(p, err, s)
    \/ \E p \in ScanIds, err \in Errs("scan"), s \in meeting_schedules \cup { NoRow } :
          ScanNextToday(p, err, s)
    \/ \E p \in ScanIds, err \in Errs("scan"), s \in meeting_schedules \cup { NoRow } :
          ScanNextWeek(p, err, s)
    \/ \E p \in ScanIds, err \in Errs("scan") : ScanInsert(p, err)
    \/ admin.cur.pc = "idle" /\ CurrentRequest
    \/ \E err \in Errs("current"), s \in meeting_schedules \cup { NoRow } :
          CurrentWithin(err, s)
    \/ \E err \in Errs("current"), s \in meeting_schedules \cup { NoRow } :
          CurrentNextToday(err, s)
    \/ \E err \in Errs("current"), s \in meeting_schedules \cup { NoRow } :
          CurrentNextWeek(err, s)

SpecStatus == InitStatus /\ [][NextStatus]_vars

----------------------------------------------------------------------------
(* Properties of the schedule evaluator                                    *)

\* a time of day "HH:MM" as minutes since midnight
MinuteOfDay(t) == ParseHour(t) * MinutesPerHour + ParseMinute(t)

\* instant i of Timeline as minutes since midnight
MinuteAt(i) == Timeline[i].hour * MinutesPerHour + Timeline[i].minute

\* the instant Now as minutes since midnight
NowMinute == MinuteAt(clk)

\* the active sessions that contain instant i of Timeline, bounds included
SessionsAt(i) ==
    { s \in meeting_schedules :
        /\ s.is_active
        /\ s.day_of_week = Timeline[i].day
        /\ MinuteOfDay(s.start_time) <= MinuteAt(i)
        /\ MinuteAt(i) <= MinuteOfDay(s.end_time) }

\* the active sessions of today that contain the instant Now
SessionsNow == SessionsAt(clk)

\* C6: isWithinSession(now) gives an active session of now's weekday with
\* start_time <= now <= end_time (both bounds inclusive) when one exists, and none
\* otherwise; so it gives the session at exactly start_time and at exactly end_time
\* and none one minute after end_time when no other session covers that minute
C6_WithinInclusive ==
    ev.fn = "isWithinMeetingSchedule" =>
        IF SessionsNow = {} THEN ev.result = NoRow ELSE ev.result \in SessionsNow

\* C6, its case: the session is returned at exactly its end_time
C6_Witness ==
    /\ ev.fn = "isWithinMeetingSchedule"
    /\ ev.result # NoRow
    /\ MinuteOfDay(ev.result.end_time) = NowMinute

\* C7: whenever the table holds an active session, nextSession gives an active
\* session, also when the only active sessions are today's and have started
C7_NextNeverNoneWhenActive ==
    (ev.fn = "getNextMeetingSession" /\ \E s \in meeting_schedules : s.is_active) =>
        (ev.result \in meeting_schedules /\ ev.result.is_active)

\* today's active sessions that start strictly after the instant Now
LaterToday ==
    { s \in meeting_schedules :
        s.is_active /\ s.day_of_week = Now.day /\ MinuteOfDay(s.start_time) > NowMinute }

\* the active sessions of the other days of the week
OtherDays == { s \in meeting_schedules : s.is_active /\ s.day_of_week # Now.day }

\* days from today to the session's day, days before today being next week
DayDistance(s) == (s.day_of_week - Now.day) % DaysPerWeek

\* C8: nextSession gives today's active session of earliest start_time among those
\* starting strictly after now, if there is one; otherwise, of the active sessions
\* on other days, the one of least (day distance modulo 7, session_number)
C8_NextSearchOrder ==
    ev.fn = "getNextMeetingSession" =>
        IF LaterToday # {}
        THEN /\ ev.result \in LaterToday
             /\ \A o \in LaterToday :
                   MinuteOfDay(ev.result.start_time) <= MinuteOfDay(o.start_time)
        ELSE OtherDays # {} =>
             /\ ev.result \in OtherDays
             /\ \A o \in OtherDays :
                   \/ DayDistance(ev.result) < DayDistance(o)
                   \/ /\ DayDistance(ev.result) = DayDistance(o)
                      /\ ev.result.session_number <= o.session_number

\* C8, its case: nothing starts later today and the session given is on a day
\* before today in the week, while another day's session lies further away
C8_Witness ==
    /\ ev.fn = "getNextMeetingSession"
    /\ LaterToday = {}
    /\ ev.result \in OtherDays
    /\ ev.result.day_of_week < Now.day
    /\ \E o \in OtherDays : DayDistance(o) > DayDistance(ev.result)

----------------------------------------------------------------------------
(* Properties of the scan classifier                                       *)

\* the member's most recent row: greatest scan_time, then greatest id
MostRecent(recs, memberId) ==
    CHOOSE i \in RecordsOf(recs, memberId) :
        \A j \in RecordsOf(recs, memberId) :
            \/ recs[j].scan_time < recs[i].scan_time
            \/ (recs[j].scan_time = recs[i].scan_time /\ j <= i)

\* the member's rows of greatest scan_time
LatestRecords(recs, memberId) ==
    { i \in RecordsOf(recs, memberId) :
        \A j \in RecordsOf(recs, memberId) : recs[j].scan_time <= recs[i].scan_time }

\* the members whose row of greatest id is a check-in
CheckedIn(recs) ==
    { m \in MemberIds :
        \E i \in RecordsOf(recs, m) :
            /\ recs[i].is_checkin
            /\ \A j \in RecordsOf(recs, m) : j <= i }

\* request p takes the step in which its scan is classified
Classifies(p) ==
    scan[p].pc = "lastscan" /\ scan'[p].pc \in { "within", "insert" }

\* request p takes the step in which its row is inserted
Inserts(p) ==
    scan[p].pc = "insert" /\ scan'[p].pc = "done" /\ scan'[p].resp.status = 200

\* the row a step has appended
Appended == attendance_records'[Len(attendance_records')]

\* C1: a scan is classified as a check-in if and only if the member has no row or
\* the member's most recent row is a check-out
C1_ClassifiedByMostRecent ==
    [][\A p \in DOMAIN scan :
          Classifies(p) =>
              (scan'[p].isCheckin <=>
                  \/ RecordsOf(attendance_records, scan[p].member) = {}
                  \/ ~attendance_records[
                         MostRecent(attendance_records, scan[p].member)].is_checkin)]_vars

\* the rows of one member that scans have inserted, in the order of their ids
ScansOf(memberId) ==
    { i \in RecordsOf(attendance_records, memberId) :
        ~attendance_records[i].is_auto_logout }

C3_OutOfScheduleRejected ==
    \A p \in DOMAIN scan :
        (scan[p].isCheckin /\ scan[p].checkAt # 0 /\ SessionsAt(scan[p].checkAt) = {}) =>
            /\ scan[p].pc \in { "within", "next1", "next2", "done" }
            /\ scan[p].wrote = 0
            /\ scan[p].pc = "done" =>
                  /\ scan[p].resp.status = 403
                  /\ scan[p].resp.action = ""
                  /\ scan[p].resp.nextSession \in
                         getNextMeetingSession(meeting_schedules,
                                               DayOfWeek(Timeline[scan[p].nextAt]),
                                               CurrentTime(Timeline[scan[p].nextAt]))

\* C3, its case: a check-in between two sessions is answered 403 with the session
\* that starts later that day
C3_Witness ==
    \E p \in DOMAIN scan :
        /\ scan[p].pc = "done"
        /\ scan[p].isCheckin
        /\ SessionsAt(scan[p].checkAt) = {}
        /\ scan[p].resp.status = 403
        /\ scan[p].resp.nextSession # NoRow
        /\ scan[p].wrote = 0

\* C4: a scan classified as a check-out goes to the INSERT without a look at the
\* schedule, is answered 200 "check-out", and its row has is_checkin,
\* needs_review and is_auto_logout all false; and the scan of a member who is
\* checked in is classified as a check-out, so that one scan checks the member out
C4_CheckedInChecksOut ==
    [][\A p \in DOMAIN scan :
          /\ (Classifies(p) /\ ~scan'[p].isCheckin) => scan'[p].pc = "insert"
          /\ scan'[p].pc \in { "within", "next1", "next2" } => scan'[p].isCheckin
          /\ (scan'[p].pc = "done" /\ scan'[p].resp.status = 403) => scan'[p].isCheckin
          /\ (scan[p].pc = "insert" /\ ~scan[p].isCheckin /\ scan'[p] # scan[p]) =>
                /\ scan'[p].pc = "done"
                /\ scan'[p].resp.status = 200
                /\ scan'[p].resp.action = "check-out"
                /\ attendance_records' = Append(attendance_records, Appended)
                /\ Appended.member_id = scan[p].member
                /\ ~Appended.is_checkin
                /\ ~Appended.needs_review
                /\ ~Appended.is_auto_logout
          /\ (Classifies(p) /\ scan[p].member \in CheckedIn(attendance_records)) =>
                ~scan'[p].isCheckin]_vars

\* C5: the row of an accepted check-in has needs_review exactly when the end_time
\* of the session that admitted the scan, minus the time of day at which the
\* session admitted it, is between 0 and 5 minutes
C5_FlaggedByTimeOfScan ==
    [][\A p \in DOMAIN scan :
          (Inserts(p) /\ scan[p].isCheckin) =>
              LET minutesUntilEnd ==
                      MinuteOfDay(scan[p].session.end_time) - MinuteAt(scan[p].checkAt)
              IN  Appended.needs_review <=>
                      (0 <= minutesUntilEnd /\ minutesUntilEnd <= ReviewWindow)]_vars

----------------------------------------------------------------------------
(* Properties of the force-logout pass                                     *)

\* the members of the rows the statement gave to pass q
Snapshot(q) == { m.id : m \in pass[q].checkedInMembers }

\* the members pass q has written a row for
Written(q) == { pass[q].written[i] : i \in DOMAIN pass[q].written }

\* C9: a pass that reads the checked-in members gets exactly the members whose
\* latest row is a check-in; each row it writes is for a member of that set it has
\* not written yet, with is_checkin false, is_auto_logout and needs_review true;
\* when it completes it has written one row for each member of the set, none when
\* the set is empty.  Stated for Spec, where no statement fails; a failed INSERT
\* is the err branch of PassWrite, reachable in SpecFault
C9_OneRowPerCheckedIn ==
    [][\A q \in DOMAIN pass :
          /\ (pass[q].pc = "query" /\ pass'[q] # pass[q]) =>
                /\ { m.id : m \in pass'[q].checkedInMembers } = CheckedIn(attendance_records)
                /\ UNCHANGED attendance_records
                /\ CheckedIn(attendance_records) = {} => pass'[q].pc = "done"
          /\ (pass[q].pc = "write" /\ pass'[q] # pass[q]) =>
                /\ attendance_records' = Append(attendance_records, Appended)
                /\ Appended.member_id \in Snapshot(q) \ Written(q)
                /\ ~Appended.is_checkin
                /\ Appended.is_auto_logout
                /\ Appended.needs_review
                /\ pass'[q].written = Append(pass[q].written, Appended.member_id)
          /\ (pass[q].pc # "write" /\ attendance_records' # attendance_records) =>
                \E p \in DOMAIN scan : Inserts(p)
          /\ pass'[q].pc = "done" =>
                /\ { pass'[q].written[i] : i \in DOMAIN pass'[q].written }
                       = { m.id : m \in pass'[q].checkedInMembers }
                /\ Len(pass'[q].written) = Cardinality(pass'[q].checkedInMembers)]_vars

\* C9, its case: a pass has completed with one row written for each of two members
C9_Witness ==
    \E q \in DOMAIN pass :
        /\ pass[q].pc = "done"
        /\ Len(pass[q].written) = 2
        /\ Snapshot(q) = MemberIds

\* C10: once a pass has completed with no failed write and no scan has inserted a
\* row since the pass read the checked-in members, no member is checked in, and a
\* pass that runs then completes without writing a row
C10_SecondPassWritesNothing ==
    [][hist.clean =>
          /\ CheckedIn(attendance_records) = {}
          /\ \A q \in DOMAIN pass :
                (pass[q].pc \in { "count", "query" } /\ pass'[q] # pass[q]) =>
                    /\ (pass[q].pc = "query" \/ pass'[q].read) => pass'[q].pc = "done"
                    /\ pass'[q].pc \in { "query", "done" }
                    /\ pass'[q].checkedInMembers = {}
                    /\ pass'[q].written = << >>
                    /\ UNCHANGED attendance_records]_vars

\* C10, its case: after a pass that logged a member out, a second pass has
\* completed and has written nothing
C10_Witness ==
    /\ hist.clean
    /\ \E i \in DOMAIN attendance_records : attendance_records[i].is_auto_logout
    /\ \E q \in DOMAIN pass :
          /\ pass[q].pc = "done"
          /\ pass[q].read
          /\ pass[q].checkedInMembers = {}
          /\ pass[q].written = << >>

\* the members of the snapshot whose INSERT pass q has attempted
Attempted(q) == Snapshot(q) \ { m.id : m \in pass[q].pending }

\* C11: in a pass every member of the snapshot gets one attempt, whatever the
\* outcome of the other attempts: each callback takes one member from the pending
\* ones and counts it, as an error exactly when no row was inserted; the pass is
\* complete only when every member has been attempted, and then the successes
\* (processed - errors) and the errors add up to the size of the snapshot
C11_FailureDoesNotBlock ==
    [][\A q \in DOMAIN pass :
          /\ (pass[q].pc = "write" /\ pass'[q] # pass[q]) =>
                /\ \E m \in pass[q].pending : pass'[q].pending = pass[q].pending \ { m }
                /\ pass'[q].processed = pass[q].processed + 1
                /\ pass'[q].errors =
                       pass[q].errors
                         + (IF attendance_records' = attendance_records THEN 1 ELSE 0)
                /\ pass'[q].checkedInMembers = pass[q].checkedInMembers
          /\ pass'[q].pc = "write" =>
                /\ pass'[q].pending # {}
                /\ Cardinality(pass'[q].pending) + pass'[q].processed
                       = Cardinality(pass'[q].checkedInMembers)
          /\ (pass'[q].pc = "done" /\ pass'[q].checkedInMembers # {}) =>
                /\ pass'[q].pending = {}
                /\ pass'[q].processed = Cardinality(pass'[q].checkedInMembers)
                /\ Len(pass'[q].written) = pass'[q].processed - pass'[q].errors
                /\ pass'[q].errors
                       = Cardinality({ m.id : m \in pass'[q].checkedInMembers }
                                       \ { pass'[q].written[i] : i \in DOMAIN pass'[q].written })]_vars

\* C11, its case: a pass over two members has completed with one INSERT failed and
\* the other member's row written
C11_Witness ==
    \E q \in DOMAIN pass :
        /\ pass[q].pc = "done"
        /\ Attempted(q) = MemberIds
        /\ pass[q].errors = 1
        /\ Len(pass[q].written) = 1
        /\ attendance_records[Len(attendance_records)].is_auto_logout

----------------------------------------------------------------------------
(* Claims on the manual trigger and the scheduler                          *)

\* the step in which the server answers a POST /api/trigger-auto-logout
TriggerAnswered == admin'.requests = admin.requests + 1 /\ admin'.trigger # 0

\* C12: a manual trigger runs the pass of the scheduled logout: the request starts
\* a pass, which will write a row for every member checked in at that moment, and
\* the caller is told the trigger was taken (status 200)
C12_ManualTriggerRunsPass ==
    [][TriggerAnswered =>
          /\ admin'.trigger = 200
          /\ \E q \in DOMAIN pass : pass[q].pc # "count" /\ pass'[q].pc = "count"]_vars

\* the rearms whose callback runs in this step with the table read
RearmCompleted == (rearm.pending \ rearm'.pending) \ rearm'.failed

\* C13: when a call of initializeMeetingScheduler has armed its triggers, the
\* running tasks are one for each active session, under its day and session
\* number, and no task that ran before the step is among them
C13_RearmReplacesTriggers ==
    [][RearmCompleted # {} =>
          /\ { t.job : t \in cronTasks' } = ArmedJobs(meeting_schedules')
          /\ Cardinality(cronTasks') = Cardinality(getMeetingSchedules(meeting_schedules'))
          /\ cronTasks' \cap cronTasks = {}]_vars

\* the tasks started by the rearms that complete in this step
Started == { t \in cronTasks' : t.task \in RearmCompleted }

MutationSettled ==
    /\ \/ admin.put.pc = "done" /\ admin.put.status \in { 200, 500 }
       \/ admin.del.pc = "done"
    /\ rearm.pending = {}

\* C15: once a change of the schedule has been answered and the rearm it started
\* has completed, the running tasks are those of the active sessions of the table
\* as it is now, with their keys and times
C15_TriggersFollowTable ==
    MutationSettled => { t.job : t \in cronTasks } = ArmedJobs(meeting_schedules)

\* the rearms whose getMeetingSchedules gives an error in this step
RearmFailed == rearm'.failed \ rearm.failed

\* C16: a rearm that cannot read the table leaves the triggers as they were
\* before it: the tasks that ran when initializeMeetingScheduler was called are
\* still running when the call has failed
C16_FailedRearmKeepsTriggers ==
    [][\A n \in RearmFailed : rearm.previous[n] \subseteq cronTasks']_vars

\* the passes that a task starts in this step
PassesStarted == { q \in DOMAIN pass : pass[q].pc # "count" /\ pass'[q].pc = "count" }

\* C17: from the moment initializeMeetingScheduler discards the tasks until its
\* callback has armed the new ones, no task, old or new, starts a pass
C17_NoPassDuringRearm ==
    [][rearm.pending # {} => PassesStarted = {}]_vars

\* the session named by the DELETE request the server is handling or has answered
DeletedKey == SchedulerId(admin.del.dayOfWeek, admin.del.sessionNumber)

\* the step in which DELETE /api/meeting-schedules/:day/:session is answered 200
DeleteAnswered == admin.del.pc = "run" /\ admin'.del.pc = "done" /\ admin'.del.status = 200

\* C18: a successful DELETE stops the tasks of the session it names and no other
\* task, and as long as the answer stands no task of that session is running, so
\* the session's trigger never fires again; a rearm in flight does not change this
C18_DeleteStopsItsTrigger ==
    /\ [][DeleteAnswered =>
             cronTasks' = { t \in cronTasks : t.job.schedulerId # DeletedKey }]_vars
    /\ []((admin.del.pc = "done" /\ admin.del.status = 200) =>
             \A t \in cronTasks : t.job.schedulerId # DeletedKey)

\* the latest management request was PUT /api/meeting-schedules with an empty
\* list, it has been answered 200 and the rearm it started has completed
EmptyReplaced ==
    /\ admin.put.pc = "done"
    /\ admin.put.status = 200
    /\ admin.put.schedules = << >>
    /\ rearm.pending = {}

\* C19: after the schedule has been replaced by the empty list no task is
\* running, and at every instant isWithinMeetingSchedule finds no session, so the
\* status is inactive and a check-in scan is rejected, and getNextMeetingSession
\* finds no next session
C19_EmptyScheduleDisarms ==
    EmptyReplaced =>
        /\ cronTasks = {}
        /\ \A i \in 1..MaxClock :
              /\ isWithinMeetingSchedule(meeting_schedules, DayOfWeek(Timeline[i]),
                                         CurrentTime(Timeline[i])) = { NoRow }
              /\ getNextMeetingSession(meeting_schedules, DayOfWeek(Timeline[i]),
                                       CurrentTime(Timeline[i])) = { NoRow }

\* the step in which a PUT /api/meeting-schedules arrives
PutArrives == admin'.requests = admin.requests + 1 /\ admin'.put.pc # "idle"

\* C20: a PUT whose schedules is not an array is answered at once with the
\* validation error 400; the table, the registry, the running tasks and the rearms
\* are as before, and the handler has nothing left to run
C20_NonArrayRejected ==
    /\ [][(PutArrives /\ ~admin'.put.array) =>
             /\ admin'.put.status = 400
             /\ UNCHANGED <<meeting_schedules, meetingSchedulers, cronTasks, rearm>>]_vars
    /\ [](~admin.put.array => admin.put.pc = "done" /\ admin.put.status = 400)

\* C20, its case: a PUT without an array has been answered 400 while the two
\* Monday sessions are active and their tasks are running
C20_Witness ==
    /\ ~admin.put.array
    /\ admin.put.status = 400
    /\ meeting_schedules = TableDefault
    /\ { t.job : t \in cronTasks } = ArmedJobs(TableDefault)

----------------------------------------------------------------------------
(* Claims on the schedule table and its validation                         *)

\* an entry of a PUT body that lacks its start or its end time
Malformed(entry) == entry.startTime = Missing \/ entry.endTime = Missing

\* C21: a PUT whose list has an entry without its start or end time is answered
\* with the validation error 400, not with success and not with the 500 of a
\* storage failure
C21_MalformedEntryRejected ==
    (/\ admin.put.pc = "done"
     /\ admin.put.array
     /\ \E i \in DOMAIN admin.put.schedules : Malformed(admin.put.schedules[i]))
       => admin.put.status = 400

\* C22: the table never holds two rows with the same day_of_week and
\* session_number, whatever lists are put and whatever sessions are deleted
C22_OneRowPerKey == UniqueKeys(meeting_schedules)

\* C22, its case: Monday's session 1 has been soft-deleted by a list that kept
\* only session 2, and a later list has added it again; both keys have one row
C22_Witness ==
    /\ Row(1, 1, T(8, 0), T(23, 50), TRUE) \in meeting_schedules
    /\ Row(1, 2, T(17, 0), T(13, 0), TRUE) \in meeting_schedules
    /\ Cardinality(meeting_schedules) = 2

\* C23: every row of the table starts before it ends, whatever lists are put
C23_StartBeforeEnd ==
    \A s \in meeting_schedules : TextLt(s.start_time, s.end_time)

----------------------------------------------------------------------------
(* Properties of the records, the checked-in view and concurrent requests  *)

\* C24: the rows are only added to: a step of a scan or of a pass leaves every
\* row as it is and appends at most one, and the only other change is a review,
\* which clears needs_review of one row and changes nothing else of it, no other
\* row and not the set of checked-in members
C24_AppendOnly ==
    [][/\ Len(attendance_records') \in { Len(attendance_records), Len(attendance_records) + 1 }
       /\ (Len(attendance_records') > Len(attendance_records)
             \/ scan' # scan \/ pass' # pass) =>
             \A i \in DOMAIN attendance_records :
                 attendance_records'[i] = attendance_records[i]
       /\ (Len(attendance_records') = Len(attendance_records)
             /\ attendance_records' # attendance_records) =>
             /\ \E i \in DOMAIN attendance_records :
                   /\ attendance_records[i].needs_review
                   /\ attendance_records'[i]
                        = [attendance_records[i] EXCEPT !.needs_review = FALSE]
                   /\ \A j \in DOMAIN attendance_records \ { i } :
                         attendance_records'[j] = attendance_records[j]
             /\ CheckedIn(attendance_records') = CheckedIn(attendance_records)]_vars

\* C24, its case: of two flagged rows, the auto-logout row has been reviewed and
\* the other is still flagged
C24_Witness ==
    \E i, j \in DOMAIN attendance_records :
        /\ attendance_records[i].is_auto_logout
        /\ ~attendance_records[i].needs_review
        /\ attendance_records[j].needs_review

\* the members whose latest row, by scan_time and then by id, is a check-in
LatestIsCheckin(recs) ==
    { m \in MemberIds :
        /\ RecordsOf(recs, m) # {}
        /\ recs[MostRecent(recs, m)].is_checkin }

\* C25: the members getCurrentlyCheckedInMembers gives are at every moment those
\* whose latest row, by scan_time and among equal scan_time by id, is a check-in,
\* and a pass that queries them gets the set of the rows as they are at the query
C25_CheckedInIsLatest ==
    /\ []({ m.id : m \in getCurrentlyCheckedInMembers(attendance_records) }
            = LatestIsCheckin(attendance_records))
    /\ [][\A q \in DOMAIN pass :
             (pass[q].pc = "query" /\ pass'[q].read) =>
                 { m.id : m \in pass'[q].checkedInMembers }
                    = LatestIsCheckin(attendance_records)]_vars

\* C25, its case: a pass has queried the members while member 1 has two rows of
\* the same scan_time and of different direction
C25_Witness ==
    /\ \E q \in DOMAIN pass : pass[q].read
    /\ \E i, j \in RecordsOf(attendance_records, 1) :
          /\ i < j
          /\ attendance_records[i].scan_time = attendance_records[j].scan_time
          /\ attendance_records[i].is_checkin # attendance_records[j].is_checkin

\* C26: a scan request inserts at most one row, in the step in which it is
\* answered 200; a request answered with anything else (400, 404, the 403 of an
\* out-of-schedule check-in, the 500 of a failed statement) has inserted none
C26_RejectedScanWritesNothing ==
    /\ [][\A p \in DOMAIN scan :
             scan'[p] # scan[p] =>
                 /\ Len(attendance_records') <= Len(attendance_records) + 1
                 /\ \A i \in DOMAIN attendance_records :
                       attendance_records'[i] = attendance_records[i]
                 /\ attendance_records' # attendance_records =>
                       (Inserts(p) /\ scan[p].wrote = 0)]_vars
    /\ [](\A p \in DOMAIN scan :
             /\ scan[p].wrote <= 1
             /\ (scan[p].pc # "done" \/ scan[p].resp.status # 200) => scan[p].wrote = 0)

\* C26, its case: an out-of-schedule check-in whose getNextMeetingSession failed
\* has been answered 500 and no row has been inserted
C26_Witness ==
    \E p \in DOMAIN scan :
        /\ scan[p].pc = "done"
        /\ scan[p].resp.status = 500
        /\ scan[p].isCheckin
        /\ scan[p].nextAt > 0
        /\ scan[p].wrote = 0
        /\ Inserted(attendance_records) = 0

\* C27: nothing between the classification of a scan and its INSERT looks at the
\* member's rows again: the row a request inserts has the member and the direction
\* the request was classified with, whatever another request has inserted since,
\* so two requests of one member classified before either has written both insert
\* a check-in
C27_ConcurrentScansBothCheckIn ==
    [][\A p \in DOMAIN scan :
          /\ scan[p].pc \in { "within", "insert" } =>
                (scan'[p].member = scan[p].member /\ scan'[p].isCheckin = scan[p].isCheckin)
          /\ Inserts(p) =>
                /\ attendance_records' = Append(attendance_records, Appended)
                /\ Appended.member_id = scan[p].member
                /\ Appended.is_checkin = scan[p].isCheckin
                /\ scan'[p].resp.action
                     = (IF scan[p].isCheckin THEN "check-in" ELSE "check-out")]_vars

\* C27, its case: both kiosks have scanned member 1, both requests were answered
\* 200 as a check-in, and the member's two rows are two check-ins in a row
C27_Witness ==
    /\ \A p \in DOMAIN scan :
          /\ scan[p].pc = "done"
          /\ scan[p].member = 1
          /\ scan[p].resp.status = 200
          /\ scan[p].resp.action = "check-in"
    /\ Len(attendance_records) = 2
    /\ \A i \in DOMAIN attendance_records :
          /\ attendance_records[i].member_id = 1
          /\ attendance_records[i].is_checkin
          /\ ~attendance_records[i].is_auto_logout

\* a pass that wrote a row for member m and a scan of member m that inserted a
\* row have both finished
BothFinished(m) ==
    /\ \E q \in DOMAIN pass : pass[q].pc = "done" /\ m \in Written(q)
    /\ \E p \in DOMAIN scan :
          scan[p].pc = "done" /\ scan[p].member = m /\ scan[p].wrote = 1

\* the row of member m that was written last
LastWritten(m) ==
    CHOOSE i \in RecordsOf(attendance_records, m) :
        \A j \in RecordsOf(attendance_records, m) : j <= i

\* C28: when a pass and a scan of the same member have both finished, in whatever
\* order their steps were taken, both rows are in the table, and the member is
\* among the checked-in members exactly when the row written last is a check-in
C28_LastWriteDecides ==
    \A m \in MemberIds :
        BothFinished(m) =>
            /\ \E i \in RecordsOf(attendance_records, m) :
                  attendance_records[i].is_auto_logout
            /\ \E i \in RecordsOf(attendance_records, m) :
                  ~attendance_records[i].is_auto_logout
                    /\ attendance_records[i].scan_time > 0
            /\ (m \in { x.id : x \in getCurrentlyCheckedInMembers(attendance_records) })
                  <=> attendance_records[LastWritten(m)].is_checkin

\* C28, its case: the scan of member 1 was classified as a check-out before the
\* pass wrote the member's auto-logout row, and its row was written after it
C28_Witness ==
    /\ BothFinished(1)
    /\ \E i \in RecordsOf(attendance_records, 1) :
          /\ attendance_records[i].is_auto_logout
          /\ i + 1 = LastWritten(1)
          /\ ~attendance_records[i + 1].is_checkin
          /\ ~attendance_records[i + 1].is_auto_logout

\* the running tasks whose expression matches the instant the clock reaches
Due == { t \in cronTasks : CronMatches(t.job, Timeline[clk']) }

Reported(recs) == { m.id : m \in getCurrentlyCheckedInMembers(recs) }

\* the callback of a recordAutoLogout of pass q runs in this step
WriteCalledBack(q) == pass[q].pc = "write" /\ pass'[q] # pass[q]

\* C30: every recordAutoLogout callback of a pass takes one member out of the
\* members the pass has still to write, so that no member is written twice by
\* one pass; a callback with an error inserts no row and leaves the reported
\* checked-in members as they were; a row is inserted only by a scan or by a
\* pass for a member it has still to write
C30_NoRetryInPass ==
    [][/\ \A q \in DOMAIN pass :
             WriteCalledBack(q) =>
                 /\ \E member \in pass[q].pending :
                       /\ pass'[q].pending = pass[q].pending \ { member }
                       /\ pass'[q].written \in
                             { pass[q].written, Append(pass[q].written, member.id) }
                 /\ pass'[q].processed = pass[q].processed + 1
                 /\ pass'[q].errors > pass[q].errors =>
                       /\ attendance_records' = attendance_records
                       /\ pass'[q].written = pass[q].written
                       /\ Reported(attendance_records') = Reported(attendance_records)
       /\ attendance_records' # attendance_records =>
             /\ Len(attendance_records') = Len(attendance_records) + 1
             /\ \/ \E p \in DOMAIN scan : scan[p].pc = "insert" /\ scan'[p] # scan[p]
                \/ \E q \in DOMAIN pass :
                      /\ WriteCalledBack(q)
                      /\ attendance_records'[Len(attendance_records')].member_id
                            \in { m.id : m \in pass[q].pending }]_vars

\* C30, its case: a pass is done, the INSERT for member 1 failed, no row has been
\* inserted since the server started and member 1 is still reported checked in
C30_Witness ==
    /\ \E q \in DOMAIN pass :
          /\ pass[q].pc = "done"
          /\ pass[q].errors = 1
          /\ 1 \in Snapshot(q) \ Written(q)
    /\ Inserted(attendance_records) = 0
    /\ 1 \in Reported(attendance_records)

----------------------------------------------------------------------------
(* The classifier and the checked-in view                                  *)

\* the classifications the member's next scan may get: TRUE for a check-in
NextScanIsCheckin(recs, memberId) ==
    { IsCheckin(recs, lastScan) : lastScan \in getLastScanForMember(recs, memberId) }

\* C33: a member is reported checked in if and only if the member's next scan is
\* classified as a check-out, whichever row getLastScanForMember gives among the
\* member's rows of greatest scan_time
C33_ClassifierAgreesWithView ==
    \A m \in MemberIds :
        NextScanIsCheckin(attendance_records, m)
            = { m \notin Reported(attendance_records) }

----------------------------------------------------------------------------
(* The running tasks and the registry                                      *)

\* C34: no two running tasks belong to the same session key, and every running
\* task is in meetingSchedulers, where a rearm or a DELETE finds it to stop it
C34_OneRegisteredTaskPerKey ==
    /\ \A t, u \in cronTasks : t.job.schedulerId = u.job.schedulerId => t = u
    /\ cronTasks \subseteq meetingSchedulers

----------------------------------------------------------------------------
(* Auto-logout rows among the rows of a member                             *)

\* the member's row before row i: the one of greatest id below i, 0 for none
Preceding(recs, i) ==
    LET before == { j \in RecordsOf(recs, recs[i].member_id) : j < i }
    IN  IF before = {} THEN 0
        ELSE CHOOSE j \in before : \A k \in before : k <= j

\* C36: the row of a member that precedes an auto-logout row of that member is a
\* check-in
C36_AutoLogoutClosesCheckin ==
    \A i \in DOMAIN attendance_records :
        attendance_records[i].is_auto_logout =>
            /\ Preceding(attendance_records, i) # 0
            /\ attendance_records[Preceding(attendance_records, i)].is_checkin

\* C35: between two auto-logout rows of a member there is a check-in row of that
\* member, so that no check-in is closed by two auto-logout rows
C35_OneAutoLogoutPerCheckin ==
    \A i, j \in DOMAIN attendance_records :
        ( /\ i < j
          /\ attendance_records[i].member_id = attendance_records[j].member_id
          /\ attendance_records[i].is_auto_logout
          /\ attendance_records[j].is_auto_logout )
        => \E k \in RecordsOf(attendance_records, attendance_records[i].member_id) :
              i < k /\ k < j /\ attendance_records[k].is_checkin

----------------------------------------------------------------------------
(* Soft-deleted sessions and the readers of the schedule                   *)

\* the rows of the table that are soft-deleted
SoftDeleted == { s \in meeting_schedules : ~s.is_active }

\* the rows the readers hand out in this step: the session that admits a
\* check-in, the next session of a rejection, the session of GET current
HandedOut ==
    { scan'[p].session : p \in { r \in DOMAIN scan : scan'[r].session # scan[r].session } }
      \cup { scan'[p].resp.nextSession :
               p \in { r \in DOMAIN scan : scan'[r].resp # scan[r].resp } }
      \cup { admin'.cur.resp.session :
               x \in { y \in { 1 } : admin'.cur.resp # admin.cur.resp } }

\* C31: a DELETE that is answered 200 keeps every row of the table and clears
\* is_active of the row it names; a soft-deleted row is handed out by no reader:
\* not as the session that admits a check-in, not as the next session of a
\* rejection or of GET current, and no rearm starts a task for it
C31_SoftDeletedInvisible ==
    [][/\ DeleteAnswered =>
             /\ Cardinality(meeting_schedules') = Cardinality(meeting_schedules)
             /\ \A s \in meeting_schedules :
                   \E r \in meeting_schedules' :
                       /\ [r EXCEPT !.is_active = TRUE] = [s EXCEPT !.is_active = TRUE]
                       /\ r.is_active = (s.is_active
                                           /\ SchedulerId(s.day_of_week, s.session_number)
                                                # DeletedKey)
       /\ HandedOut \cap SoftDeleted = {}
       /\ \A t \in cronTasks' \ cronTasks :
             \A s \in SoftDeleted :
                 t.job.schedulerId # SchedulerId(s.day_of_week, s.session_number)]_vars

\* C31, its case: Monday's session 2 has been soft-deleted and is still in the
\* table; after that a refresh has rearmed and only the task of session 1 runs,
\* a check-in at 13:00 has been rejected without a next session, and GET current
\* has answered that no session is active
C31_Witness ==
    /\ Row(1, 2, T(13, 0), T(17, 0), FALSE) \in meeting_schedules
    /\ admin.refresh = 200
    /\ rearm.calls = 1
    /\ rearm.pending = {}
    /\ { t.job.schedulerId : t \in cronTasks } = { SchedulerId(1, 1) }
    /\ Timeline[clk] = At(1, 13, 0)
    /\ \E p \in DOMAIN scan :
          /\ scan[p].pc = "done"
          /\ scan[p].resp = OutOfSchedule(NoRow)
    /\ admin.cur.pc = "done"
    /\ admin.cur.resp = Status(200, FALSE, NoRow)

----------------------------------------------------------------------------
(* PUT /api/meeting-schedules replaces the active sessions                 *)

\* the step in which PUT /api/meeting-schedules is answered 200
PutSucceeds ==
    admin.put.pc # "done" /\ admin'.put.pc = "done" /\ admin'.put.status = 200

\* a list whose entries have their properties and name different sessions
WellFormed(list) ==
    /\ \A i \in DOMAIN list : ~Malformed(list[i])
    /\ \A i, j \in DOMAIN list :
          SchedulerId(list[i].dayOfWeek, list[i].sessionNumber)
            = SchedulerId(list[j].dayOfWeek, list[j].sessionNumber) => i = j

\* the keys of the rows of a table
Keys(table) == { SchedulerId(s.day_of_week, s.session_number) : s \in table }

\* C32: when a PUT with a well-formed list is answered 200, the active rows of
\* the table are the entries of the list with their times, one row for each, also
\* for a key whose row was soft-deleted, and every other row is inactive; no
\* step of the PUT takes a row out of the table
C32_PutReplacesActive ==
    [][/\ (PutSucceeds /\ WellFormed(admin'.put.schedules)) =>
             /\ getMeetingSchedules(meeting_schedules')
                  = { Row(admin'.put.schedules[i].dayOfWeek,
                          admin'.put.schedules[i].sessionNumber,
                          admin'.put.schedules[i].startTime,
                          admin'.put.schedules[i].endTime, TRUE) :
                        i \in DOMAIN admin'.put.schedules }
             /\ UniqueKeys(meeting_schedules')
       /\ Keys(meeting_schedules) \subseteq Keys(meeting_schedules')]_vars

\* C32, its case: the PUT of Monday's session 1 and Tuesday's session 1 has been
\* answered 200: Tuesday's session, soft-deleted before, is active with the new
\* times and Monday's session 2, active before, is inactive
C32_Witness ==
    /\ admin.put.pc = "done"
    /\ admin.put.status = 200
    /\ Len(admin.put.schedules) = 2
    /\ meeting_schedules = { Row(1, 1, T(8, 0), T(12, 0), TRUE),
                             Row(1, 2, T(13, 0), T(17, 0), FALSE),
                             Row(2, 1, T(9, 30), T(11, 30), TRUE) }

----------------------------------------------------------------------------
(* GET current and the gate of the scan handler                            *)

\* the check-in scan of slot p and GET current have both been answered from the
\* schedule
BothAnswered(p) ==
    /\ scan[p].pc = "done"
    /\ scan[p].isCheckin
    /\ scan[p].resp.status \in { 200, 403 }
    /\ admin.cur.pc = "done"
    /\ admin.cur.resp.status = 200

\* the sessions of today that start next: among sessions that start together
\* ORDER BY start_time LIMIT 1 leaves the choice open
StartTogether ==
    NextTodayRows(meeting_schedules, DayOfWeek(Now), CurrentTime(Now))

\* C38: for a table and an instant, GET current answers active exactly when the
\* check-in scan is accepted, and when it answers inactive its nextSession is the
\* next session of the scan's rejection: the same row, or rows of today that
\* start together, and none in both when there is none
C38_StatusAgreesWithGate ==
    \A p \in DOMAIN scan :
        BothAnswered(p) =>
            /\ admin.cur.resp.active <=> scan[p].resp.status = 200
            /\ ~admin.cur.resp.active =>
                  \/ admin.cur.resp.session = scan[p].resp.nextSession
                  \/ { admin.cur.resp.session, scan[p].resp.nextSession }
                        \subseteq StartTogether

\* C38, its case: on a table with sessions at an instant outside them the scan
\* has been rejected and GET current has answered inactive, both naming the same
\* next session
C38_Witness ==
    \E p \in DOMAIN scan :
        /\ BothAnswered(p)
        /\ ~admin.cur.resp.active
        /\ scan[p].resp.status = 403
        /\ scan[p].resp.nextSession # NoRow
        /\ admin.cur.resp.session = scan[p].resp.nextSession

----------------------------------------------------------------------------
(* The trigger that closes a check-in                                      *)

MinutesPerWeek == DaysPerWeek * HoursPerDay * MinutesPerHour

\* a day of the week and a minute of that day as minutes since Sunday 00:00
WeekMinute(day, minute) == day * HoursPerDay * MinutesPerHour + minute

\* the first firing of a job after the instant now, in minutes since the Sunday
\* 00:00 before now: node-cron fires the job every week
NextFiring(job, now) ==
    LET at == WeekMinute(job.day_of_week, job.hour * MinutesPerHour + job.minute)
        from == WeekMinute(now.day, now.hour * MinutesPerHour + now.minute)
    IN  IF at > from THEN at ELSE at + MinutesPerWeek

\* slot p inserts, in this step, a check-in row at an instant at which the
\* session that admitted the scan is going on
ChecksInDuring(p) ==
    /\ scan[p].pc = "insert"
    /\ scan[p].isCheckin
    /\ attendance_records' # attendance_records
    /\ scan[p].session \in WithinRows(meeting_schedules, DayOfWeek(Now), CurrentTime(Now))

\* C37: when a member checks in during a session, a task of that session is
\* running and its first firing after the check-in comes after the session's
\* end_time and before the session's start_time of the following week, so that
\* the pass it starts closes the check-in before the session can admit the member
\* again
C37_TriggerClosesCheckin ==
    [][\A p \in DOMAIN scan :
          ChecksInDuring(p) =>
              \E t \in cronTasks :
                  /\ t.job.schedulerId = SchedulerId(scan[p].session.day_of_week,
                                                     scan[p].session.session_number)
                  /\ NextFiring(t.job, Now)
                       > WeekMinute(scan[p].session.day_of_week,
                                    MinuteOfDay(scan[p].session.end_time))
                  /\ NextFiring(t.job, Now)
                       < WeekMinute(scan[p].session.day_of_week,
                                    MinuteOfDay(scan[p].session.start_time))
                           + MinutesPerWeek]_vars

====
